---- MODULE Spec2Model ----
(***************************************************************************)
(* A model of orion's linear-transform compiler, cache and evaluator       *)
(* (src/orion/backend/python/lt_evaluator.py).                             *)
(*                                                                         *)
(* The HDF5 cache file is a tree: one group per layer name holding nine    *)
(* datasets, the sub-groups "diagonals" and "plaintexts", one group per    *)
(* block under "diagonals" and one dataset per diagonal under a block.     *)
(* Python dicts are sequences of [k, v] pairs in insertion order.  Strings *)
(* that the code formats and parses (block and diagonal names) are         *)
(* sequences of one-character strings.                                     *)
(***************************************************************************)
EXTENDS Integers, Sequences, FiniteSets, TLC

VARIABLES
    layers,          \* layer name -> the layer descriptor object
    params_embed,    \* scheme.params.get_embedding_method() as of now
    embed_method,    \* NewEvaluator.embed_method, captured by __init__
    fileExists,      \* whether the file at diags_path exists
    store,           \* the contents of the file: layer name -> group
    live,            \* backend: ids of the linear transforms now allocated
    calls,           \* backend: the primitive calls of the last operation
    ret,             \* what the last evaluator call did and returned
    written,         \* history: per layer name, the layer as it was when
                     \*   the save call that wrote its entry began
    justSaved,       \* history: the layer whose save has just completed
    refits,          \* number of changes made to the instantiated network
    failures,        \* number of file writes and backend calls that have failed
    gen,             \* history: per layer, "none", or whether its transform_ids
                     \*   were "generated" or have since been "deleted"
    unowned,         \* history: live ids that no caller-held mapping accounts for
    strayDelete,     \* history: delete_transforms was called on a mapping again
    managers,        \* bootstrapper.NewEvaluator objects now alive
    built,           \* history: how many of them were constructed
    bootstrappers,   \* backend: the slot counts of the bootstrappers it holds
    requested,       \* history: the slot counts generate_bootstrapper returned for
    deletes,         \* history: number of DeleteBootstrappers calls
    torn,            \* whether the scheme has been torn down
    clock,           \* time.time()
    phase_timers,    \* BenchmarkLogger.phase_timers
    log_phases,      \* BenchmarkLogger.log_data["phases"]
    log_data,        \* BenchmarkLogger.log_data: status, error and timing, with
                     \*   the number of finalize calls and of log files written
    run              \* the benchmark script: where it is, the exception it is
                     \*   handling, and the exception it ended with

vars == <<layers, params_embed, embed_method, fileExists, store, live, calls,
          ret, written, justSaved, refits, failures, gen, unowned,
          strayDelete, managers, built, bootstrappers, requested, deletes,
          torn, clock, phase_timers, log_phases, log_data, run>>

cacheVars == <<fileExists, store, written, justSaved>>
backendVars == <<live, calls, gen, unowned, strayDelete>>
bootVars == <<managers, built, bootstrappers, requested, deletes, torn>>
loggerVars == <<clock, phase_timers, log_phases, log_data, run>>

-----------------------------------------------------------------------------
(* Bounds of the model.                                                    *)

MaxRefits == 2      \* changes to the instantiated network in one behaviour
MaxFailures == 1    \* failed file writes and backend calls in one behaviour
MaxIds == 5         \* size of the backend's pool of transform ids
MaxHops == 3        \* encrypt and decrypt calls applied one after the other
MaxManagers == 2    \* bootstrapper objects constructed for the scheme
MaxClock == 30      \* the time a behaviour covers, in units of 0.00001 s

LayerNames == {"fc1", "fc2"}

-----------------------------------------------------------------------------
(* Python's str(int) and int(str), str.split("_"), and the order in which  *)
(* h5py iterates the members of a group (by name, bytewise).               *)

DigitChar == <<"0", "1", "2", "3", "4", "5", "6", "7", "8", "9">>

RECURSIVE Digits(_)
Digits(n) ==
    IF n < 10 THEN <<DigitChar[n + 1]>>
    ELSE Digits(n \div 10) \o <<DigitChar[(n % 10) + 1]>>

Str(n) == IF n < 0 THEN <<"-">> \o Digits(-n) ELSE Digits(n)

DigitVal(c) == CHOOSE d \in 0..9 : DigitChar[d + 1] = c

RECURSIVE NatOf(_)
NatOf(s) ==
    IF Len(s) = 1 THEN DigitVal(s[1])
    ELSE 10 * NatOf(SubSeq(s, 1, Len(s) - 1)) + DigitVal(s[Len(s)])

ParseInt(s) == IF s[1] = "-" THEN -NatOf(Tail(s)) ELSE NatOf(s)

BlockIdx(row, col) == Str(row) \o <<"_">> \o Str(col)

ParseBlock(block) ==
    LET i == CHOOSE j \in 1..Len(block) :
                 block[j] = "_" /\ \A h \in 1..(j - 1) : block[h] # "_"
    IN  <<ParseInt(SubSeq(block, 1, i - 1)),
          ParseInt(SubSeq(block, i + 1, Len(block)))>>

CharCode(c) ==
    CASE c = "-" -> 45
      [] c = "_" -> 95
      [] OTHER   -> 48 + DigitVal(c)

RECURSIVE NameLess(_, _)
NameLess(a, b) ==
    IF Len(a) = 0 THEN Len(b) > 0
    ELSE IF Len(b) = 0 THEN FALSE
    ELSE IF CharCode(a[1]) # CharCode(b[1]) THEN CharCode(a[1]) < CharCode(b[1])
    ELSE NameLess(Tail(a), Tail(b))

RECURSIVE IterNames(_)
IterNames(S) ==
    IF S = {} THEN <<>>
    ELSE LET m == CHOOSE x \in S : \A y \in S \ {x} : NameLess(x, y)
         IN  <<m>> \o IterNames(S \ {m})

-----------------------------------------------------------------------------
(* Python dicts, in insertion order.                                       *)

DictKeys(d) == {d[i].k : i \in 1..Len(d)}

DictGet(d, key) == d[CHOOSE i \in 1..Len(d) : d[i].k = key].v

DictSet(d, key, val) ==
    IF key \in DictKeys(d)
    THEN [i \in 1..Len(d) |-> IF d[i].k = key THEN [k |-> key, v |-> val] ELSE d[i]]
    ELSE Append(d, [k |-> key, v |-> val])

DictValues(d) == [i \in 1..Len(d) |-> d[i].v]

(* The mapping a dict of dicts denotes, without its order. *)
AsMapping(d) ==
    [key \in DictKeys(d) |->
        LET inner == DictGet(d, key)
        IN  [idx \in DictKeys(inner) |-> DictGet(inner, idx)]]

-----------------------------------------------------------------------------
(* Layer descriptors.  The layer objects are built by the network's        *)
(* compile stage; the values below are the inputs the model draws from.    *)
(* Bias values and range statistics are in units of 1e-8.                  *)

EmbedMethods == {"hybrid", "square"}

(* output_rotations is an integer or a sequence of integers. *)
IntRot(n) == [seq |-> FALSE, val |-> <<n>>]
SeqRot(s) == [seq |-> TRUE, val |-> s]

RotationValues == {IntRot(0), IntRot(1), SeqRot(<<1>>), SeqRot(<<0, 1>>)}
BiasValues == {<<0>>, <<1>>, <<5>>, <<0, 0>>}
ShapeValues == {<<1, 4>>, <<1, 8>>}
StatValues == {0, 3}

Entry(key, val) == [k |-> key, v |-> val]

(* The 2x2-block layer of the specification's end-to-end scenario. *)
TwoByTwo ==
    << Entry(<<0, 0>>, << Entry(0, <<1, 2>>) >>),
       Entry(<<0, 1>>, << Entry(1, <<3, 4>>) >>),
       Entry(<<1, 0>>, << Entry(0, <<5, 6>>) >>),
       Entry(<<1, 1>>, << Entry(1, <<7, 8>>) >>) >>

(* One block whose diagonals were inserted in the order 1, 0. *)
OneBlock == << Entry(<<0, 0>>, << Entry(1, <<1>>), Entry(0, <<2>>) >>) >>

(* Two blocks, inserted in ascending (row, col) order, one in row 10. *)
TallBlocks ==
    << Entry(<<2, 0>>, << Entry(0, <<1>>) >>),
       Entry(<<10, 0>>, << Entry(0, <<2>>) >>) >>

DiagonalChoices == {TwoByTwo, OneBlock, TallBlocks}

NewLayer(name, diagonals) ==
    [ name             |-> name,
      diagonals        |-> diagonals,
      level            |-> 3,
      bsgs_ratio       |-> 2,
      on_bias          |-> <<0>>,
      output_rotations |-> IntRot(0),
      input_shape      |-> <<1, 4>>,
      output_shape     |-> <<1, 4>>,
      fhe_output_shape |-> <<1, 8>>,
      input_min        |-> 0,
      input_max        |-> 3,
      output_min       |-> 0,
      output_max       |-> 3,
      transform_ids    |-> <<>> ]

RefitFields == {"on_bias", "output_rotations", "input_shape", "output_shape",
                "input_min", "input_max", "output_min", "output_max"}

FieldValues(field) ==
    CASE field = "on_bias"          -> BiasValues
      [] field = "output_rotations" -> RotationValues
      [] field \in {"input_shape", "output_shape"} -> ShapeValues
      [] OTHER                      -> StatValues

-----------------------------------------------------------------------------
(* The cache file.  A layer's group is                                     *)
(*   [ds: dataset name -> value, groups: the sub-groups present,            *)
(*    blocks: block name -> (diagonal name -> payload)].                   *)

EmptyGroup == [ds |-> <<>>, groups |-> {}, blocks |-> <<>>]

MetaKeys == <<"embedding_method", "output_rotations", "on_bias", "input_shape",
              "output_shape", "input_min", "input_max", "output_min",
              "output_max">>

MetaKeySet == {MetaKeys[i] : i \in 1..Len(MetaKeys)}

(* The value save_transforms writes under each dataset name. *)
MetaValue(layer, embed, key) ==
    IF key = "embedding_method" THEN embed ELSE layer[key]

Step(op, key, val, blk, dkey, bpos, dpos) ==
    [op |-> op, key |-> key, val |-> val, blk |-> blk, dkey |-> dkey,
     bpos |-> bpos, dpos |-> dpos]

RECURSIVE DiagSteps(_, _, _, _)
DiagSteps(diags, block_idx, bpos, dpos) ==
    IF dpos > Len(diags) THEN <<>>
    ELSE <<Step("create_diag", "", diags[dpos].v,
                block_idx, Str(diags[dpos].k), bpos, dpos)>>
         \o DiagSteps(diags, block_idx, bpos, dpos + 1)

RECURSIVE BlockSteps(_, _)
BlockSteps(diagonals, bpos) ==
    IF bpos > Len(diagonals) THEN <<>>
    ELSE LET row == diagonals[bpos].k[1]
             col == diagonals[bpos].k[2]
             block_idx == BlockIdx(row, col)
         IN  <<Step("create_block", "", <<>>, block_idx, <<>>, bpos, 0)>>
             \o DiagSteps(diagonals[bpos].v, block_idx, bpos, 1)
             \o BlockSteps(diagonals, bpos + 1)

(* The writes of save_transforms, in program order. *)
SaveSteps(layer, embed) ==
    <<Step("open", "", <<>>, <<>>, <<>>, 0, 0),
      Step("require_group", "", <<>>, <<>>, <<>>, 0, 0)>>
    \o [i \in 1..Len(MetaKeys) |->
          Step("create_dataset", MetaKeys[i], MetaValue(layer, embed, MetaKeys[i]),
               <<>>, <<>>, 0, 0)]
    \o <<Step("require_subgroup", "diagonals", <<>>, <<>>, <<>>, 0, 0),
         Step("require_subgroup", "plaintexts", <<>>, <<>>, <<>>, 0, 0)>>
    \o BlockSteps(layer.diagonals, 1)

(* One write.  st = [file, store, diagonals, raised]: the file, the        *)
(* layer's in-memory diagonals, and the exception raised, if any.          *)
ApplyStep(st, name, s) ==
    LET g == st.store[name]
        put(g2) == [st EXCEPT !.store = [st.store EXCEPT ![name] = g2]]
        fail == [st EXCEPT !.raised = "ValueError: name already exists"]
    IN  CASE s.op = "open" -> [st EXCEPT !.file = TRUE]
          [] s.op = "require_group" ->
                 IF name \in DOMAIN st.store THEN st
                 ELSE [st EXCEPT !.store = (name :> EmptyGroup) @@ st.store]
          [] s.op = "create_dataset" ->
                 IF s.key \in DOMAIN g.ds THEN fail
                 ELSE put([g EXCEPT !.ds = (s.key :> s.val) @@ g.ds])
          [] s.op = "require_subgroup" ->
                 put([g EXCEPT !.groups = g.groups \cup {s.key}])
          [] s.op = "create_block" ->
                 IF s.blk \in DOMAIN g.blocks THEN fail
                 ELSE put([g EXCEPT !.blocks = (s.blk :> <<>>) @@ g.blocks])
          [] s.op = "create_diag" ->
                 IF s.dkey \in DOMAIN g.blocks[s.blk] THEN fail
                 ELSE [put([g EXCEPT !.blocks[s.blk] =
                                (s.dkey :> s.val) @@ g.blocks[s.blk]])
                         EXCEPT !.diagonals[s.bpos].v[s.dpos].v = <<>>]

(* Runs the writes from step i on; step failAt fails in the file layer     *)
(* (failAt = 0: no such failure).  An exception ends the call; the with    *)
(* block closes the file, which keeps what was written.                    *)
RECURSIVE RunSave(_, _, _, _, _)
RunSave(st, name, steps, i, failAt) ==
    IF i > Len(steps) THEN st
    ELSE IF i = failAt THEN [st EXCEPT !.raised = "OSError"]
    ELSE LET next == ApplyStep(st, name, steps[i])
         IN  IF next.raised # "" THEN next
             ELSE RunSave(next, name, steps, i + 1, failAt)

(* A faulty variant of save_transforms: it keeps the payloads of the       *)
(* diagonals in memory.  C25 must tell it from save_transforms.            *)
save_transforms_keeping(layer, embed, file, contents, failAt) ==
    LET done == RunSave([file |-> file, store |-> contents,
                         diagonals |-> layer.diagonals, raised |-> ""],
                        layer.name, SaveSteps(layer, embed), 1, failAt)
    IN  [done EXCEPT !.diagonals = layer.diagonals]

save_transforms(layer, embed, file, contents, failAt) ==
    RunSave([file |-> file, store |-> contents,
             diagonals |-> layer.diagonals, raised |-> ""],
            layer.name, SaveSteps(layer, embed), 1, failAt)

-----------------------------------------------------------------------------
(* _verify_layer_compatibility.                                            *)

Abs(x) == IF x < 0 THEN -x ELSE x

(* torch.allclose(a, b) with its default tolerances, rtol = 1e-5 and       *)
(* atol = 1e-8: |a - b| <= atol + rtol * |b| elementwise, in units of 1e-8. *)
AtolUnits == 1
RtolInverse == 100000

AllClose(a, b) ==
    \A i \in 1..Len(a) :
        Abs(a[i] - b[i]) * RtolInverse <= AtolUnits * RtolInverse + Abs(b[i])

(* `curr != last` as the condition of an if, where last is what h5py read  *)
(* back: a numpy scalar for a saved integer, an array for a saved sequence.*)
(* Two scalars compare to a bool.  Otherwise numpy compares elementwise    *)
(* after broadcasting, and the truth value of the resulting array is its   *)
(* single element, or an exception when it has two elements or more.       *)
(* Shapes that do not broadcast raise as well (numpy >= 1.25); the model's *)
(* inputs hold no such pair and no empty sequence.                         *)
RotationsDiffer(curr, last) ==
    LET lc == Len(curr.val)
        ll == Len(last.val)
        n  == IF lc > ll THEN lc ELSE ll
    IN  IF ~curr.seq /\ ~last.seq
        THEN IF curr.val[1] # last.val[1] THEN "true" ELSE "false"
        ELSE IF n # 1 \/ lc = 0 \/ ll = 0 THEN "raise"
        ELSE IF curr.val[1] # last.val[1] THEN "true" ELSE "false"

Mismatches(layer, curr_embed_method, last) ==
    (IF Len(layer.on_bias) # Len(last["on_bias"])
       THEN <<"on_bias: shape mismatch">>
       ELSE IF ~AllClose(layer.on_bias, last["on_bias"])
       THEN <<"on_bias: values mismatch">>
       ELSE <<>>)
    \o (IF RotationsDiffer(layer.output_rotations, last["output_rotations"]) = "true"
          THEN <<"output_rotations mismatch">> ELSE <<>>)
    \o (IF layer.input_shape # last["input_shape"]
          THEN <<"input_shape mismatch">> ELSE <<>>)
    \o (IF layer.output_shape # last["output_shape"]
          THEN <<"output_shape mismatch">> ELSE <<>>)
    \o (IF curr_embed_method # last["embedding_method"]
          THEN <<"embedding_method mismatch">> ELSE <<>>)
    \o (IF layer.input_min # last["input_min"]
          THEN <<"input_min mismatch">> ELSE <<>>)
    \o (IF layer.input_max # last["input_max"]
          THEN <<"input_max mismatch">> ELSE <<>>)
    \o (IF layer.output_min # last["output_min"]
          THEN <<"output_min mismatch">> ELSE <<>>)
    \o (IF layer.output_max # last["output_max"]
          THEN <<"output_max mismatch">> ELSE <<>>)

Outcome(kind, mismatches) == [outcome |-> kind, mismatches |-> mismatches]

(* The outcome is "ok" when the function returns, and otherwise names the  *)
(* exception: the open of a file that does not exist, the ValueError for a *)
(* layer that is not in the file, the KeyError of a dataset that is not in *)
(* the layer's group, numpy's ValueError for the truth value of an array,  *)
(* or the ValueError that lists the mismatches.                            *)
verify_layer_compatibility(layer, curr_embed_method, file, contents) ==
    IF ~file THEN Outcome("FileNotFoundError", <<>>)
    ELSE IF layer.name \notin DOMAIN contents
    THEN Outcome("ValueError: layer not found", <<>>)
    ELSE LET last == contents[layer.name].ds
         IN  IF ~(MetaKeySet \subseteq DOMAIN last) THEN Outcome("KeyError", <<>>)
             ELSE IF RotationsDiffer(layer.output_rotations,
                                     last["output_rotations"]) = "raise"
             THEN Outcome("ValueError: truth value of an array is ambiguous", <<>>)
             ELSE LET mismatches == Mismatches(layer, curr_embed_method, last)
                  IN  IF mismatches # <<>>
                      THEN Outcome("ValueError: mismatch", mismatches)
                      ELSE Outcome("ok", <<>>)

-----------------------------------------------------------------------------
(* load_transforms.                                                        *)

RECURSIVE ReadDiags(_, _, _, _)
ReadDiags(block_group, names, i, diags) ==
    IF i > Len(names) THEN diags
    ELSE ReadDiags(block_group, names, i + 1,
                   DictSet(diags, ParseInt(names[i]), block_group[names[i]]))

RECURSIVE ReadBlocks(_, _, _, _)
ReadBlocks(diag_group, names, i, all_diagonals) ==
    IF i > Len(names) THEN all_diagonals
    ELSE LET block_group == diag_group[names[i]]
             diags == ReadDiags(block_group, IterNames(DOMAIN block_group), 1, <<>>)
         IN  ReadBlocks(diag_group, names, i + 1,
                        DictSet(all_diagonals, ParseBlock(names[i]), diags))

NoDiagonals == <<>>

(* What load_transforms did: reads are the names of the block groups it    *)
(* read, in the order it read them, and file tells whether the file exists *)
(* afterwards.                                                             *)
Loaded(kind, mismatches, returned, diagonals, reads, file) ==
    [outcome |-> kind, mismatches |-> mismatches, returned |-> returned,
     diagonals |-> diagonals, reads |-> reads, file |-> file]

(* A faulty variant of load_transforms: it reads the blocks of the layer's *)
(* entry before it checks the layer.  C21 must tell it from                *)
(* load_transforms.                                                        *)
load_transforms_reading_first(layer, curr_embed_method, file, contents) ==
    LET check == verify_layer_compatibility(layer, curr_embed_method, file, contents)
        present == /\ file
                   /\ layer.name \in DOMAIN contents
                   /\ "diagonals" \in contents[layer.name].groups
        names == IF present THEN IterNames(DOMAIN contents[layer.name].blocks)
                 ELSE <<>>
    IN  IF check.outcome # "ok"
        THEN Loaded(check.outcome, check.mismatches, FALSE, NoDiagonals, names, file)
        ELSE IF ~present
        THEN Loaded("KeyError", <<>>, FALSE, NoDiagonals, <<>>, TRUE)
        ELSE Loaded("ok", <<>>, TRUE,
                    ReadBlocks(contents[layer.name].blocks, names, 1, <<>>),
                    names, TRUE)

(* A faulty variant of load_transforms: it opens the file in append mode   *)
(* before it checks the layer, which creates a file that does not exist.   *)
(* C28 must tell it from load_transforms.                                  *)
load_transforms_opening_first(layer, curr_embed_method, file, contents) ==
    LET check == verify_layer_compatibility(layer, curr_embed_method, TRUE,
                                            IF file THEN contents ELSE <<>>)
    IN  IF check.outcome # "ok"
        THEN Loaded(check.outcome, check.mismatches, FALSE, NoDiagonals, <<>>, TRUE)
        ELSE LET group == contents[layer.name]
                 names == IterNames(DOMAIN group.blocks)
             IN  IF "diagonals" \notin group.groups
                 THEN Loaded("KeyError", <<>>, FALSE, NoDiagonals, <<>>, TRUE)
                 ELSE Loaded("ok", <<>>, TRUE,
                             ReadBlocks(group.blocks, names, 1, <<>>), names, TRUE)

(* The file is opened in append mode once the check has passed; that mode  *)
(* creates the file when it does not exist.                                *)
load_transforms(layer, curr_embed_method, file, contents) ==
    LET check == verify_layer_compatibility(layer, curr_embed_method, file, contents)
    IN  IF check.outcome # "ok"
        THEN Loaded(check.outcome, check.mismatches, FALSE, NoDiagonals, <<>>, file)
        ELSE LET group == contents[layer.name]
                 names == IterNames(DOMAIN group.blocks)
             IN  IF "diagonals" \notin group.groups
                 THEN Loaded("KeyError", <<>>, FALSE, NoDiagonals, <<>>, TRUE)
                 ELSE Loaded("ok", <<>>, TRUE,
                             ReadBlocks(group.blocks, names, 1, <<>>), names, TRUE)

-----------------------------------------------------------------------------
(* The backend's linear transforms.  A primitive call is recorded as       *)
(* [op, args, result], the result being the id returned, or 0 when the     *)
(* call returns nothing or fails.  GenerateLinearTransform hands out an id *)
(* that no live transform has.                                             *)

Ids == 1..MaxIds

(* The answers the model draws for count requests in a row: the lowest    *)
(* ids not in use, ascending (an allocator that reuses released ids), or   *)
(* the highest ids not in use, descending.                                 *)
Range(f) == {f[i] : i \in DOMAIN f}

FreshIds(count, inUse) ==
    LET free == Ids \ inUse
    IN  {f \in [1..count -> free] :
           \/ /\ \A i, j \in DOMAIN f : i < j => f[i] < f[j]
              /\ \A x \in free \ Range(f) : \A y \in Range(f) : y < x
           \/ /\ \A i, j \in DOMAIN f : i < j => f[i] > f[j]
              /\ \A x \in free \ Range(f) : \A y \in Range(f) : y > x}

Call(op, args, result) == [op |-> op, args |-> args, result |-> result]

RECURSIVE Flatten(_, _, _)
Flatten(diags, i, acc) ==
    IF i > Len(diags) THEN acc
    ELSE Flatten(diags, i + 1,
                 [diags_idxs |-> Append(acc.diags_idxs, diags[i].k),
                  diags_data |-> acc.diags_data \o diags[i].v])

(* The loop of generate_transforms from block i on.  fresh[j] is the id    *)
(* the backend gives to the j-th request; request failAt raises.           *)
RECURSIVE GenerateBlocks(_, _, _, _, _)
GenerateBlocks(layer, i, fresh, failAt, acc) ==
    IF i > Len(layer.diagonals) THEN acc
    ELSE LET row == layer.diagonals[i].k[1]
             col == layer.diagonals[i].k[2]
             flat == Flatten(layer.diagonals[i].v, 1,
                             [diags_idxs |-> <<>>, diags_data |-> <<>>])
             args == <<flat.diags_idxs, flat.diags_data, layer.level,
                       layer.bsgs_ratio, row, col, layer.name>>
         IN  IF i = failAt
             THEN [acc EXCEPT
                      !.calls = Append(acc.calls,
                                       Call("GenerateLinearTransform", args, 0)),
                      !.raised = "BackendOperationFailed"]
             ELSE LET lintransf_id == fresh[i]
                  IN  GenerateBlocks(layer, i + 1, fresh, failAt,
                         [acc EXCEPT
                             !.calls = Append(acc.calls,
                                 Call("GenerateLinearTransform", args, lintransf_id)),
                             !.live = acc.live \cup {lintransf_id},
                             !.lintransf_ids =
                                 DictSet(acc.lintransf_ids, <<row, col>>, lintransf_id)])

(* A faulty variant of generate_transforms: it binds the block keys to the *)
(* returned ids in reverse.  C7 must tell it from generate_transforms.     *)
generate_transforms_misbound(layer, inUse, fresh, failAt) ==
    LET done == GenerateBlocks(layer, 1, fresh, failAt,
                    [calls |-> <<>>, live |-> inUse, lintransf_ids |-> <<>>,
                     raised |-> ""])
        ids  == done.lintransf_ids
    IN  [done EXCEPT !.lintransf_ids =
            [i \in 1..Len(ids) |-> Entry(ids[i].k, ids[Len(ids) + 1 - i].v)]]

(* A faulty variant of generate_transforms: it passes the diagonal indices *)
(* of a block in reverse, and the data as it is.  C23 must tell it from    *)
(* generate_transforms.                                                    *)
generate_transforms_indices_reversed(layer, inUse, fresh, failAt) ==
    LET done == GenerateBlocks(layer, 1, fresh, failAt,
                    [calls |-> <<>>, live |-> inUse, lintransf_ids |-> <<>>,
                     raised |-> ""])
        turned(idxs) == [k \in 1..Len(idxs) |-> idxs[Len(idxs) + 1 - k]]
    IN  [done EXCEPT !.calls =
            [i \in 1..Len(done.calls) |->
                [done.calls[i] EXCEPT !.args[1] = turned(@)]]]

generate_transforms(layer, inUse, fresh, failAt) ==
    GenerateBlocks(layer, 1, fresh, failAt,
                   [calls |-> <<>>, live |-> inUse, lintransf_ids |-> <<>>,
                    raised |-> ""])

RECURSIVE DeleteEach(_, _, _, _)
DeleteEach(tids, i, failAt, acc) ==
    IF i > Len(tids) THEN acc
    ELSE LET asked == [acc EXCEPT !.calls =
                          Append(acc.calls, Call("DeleteLinearTransform", <<tids[i]>>, 0))]
         IN  IF i = failAt
             THEN [asked EXCEPT !.raised = "BackendOperationFailed"]
             ELSE DeleteEach(tids, i + 1, failAt,
                             [asked EXCEPT !.live = acc.live \ {tids[i]}])

(* A faulty variant of delete_transforms: it leaves the last id of the     *)
(* mapping alone.  C9 must tell it from delete_transforms.                 *)
delete_transforms_but_last(transform_ids, inUse, failAt) ==
    LET tids == DictValues(transform_ids)
    IN  DeleteEach(SubSeq(tids, 1, Len(tids) - 1), 1, failAt,
                   [calls |-> <<>>, live |-> inUse, raised |-> ""])

(* A faulty variant of delete_transforms: it asks the backend once more   *)
(* for the id whose deletion failed.  C19 must tell it from                *)
(* delete_transforms.                                                      *)
delete_transforms_retrying(transform_ids, inUse, failAt) ==
    LET done == DeleteEach(DictValues(transform_ids), 1, failAt,
                           [calls |-> <<>>, live |-> inUse, raised |-> ""])
    IN  IF done.raised = "" THEN done
        ELSE [done EXCEPT !.calls = Append(done.calls, done.calls[Len(done.calls)])]

(* A faulty variant of delete_transforms: it goes through the mapping      *)
(* twice.  C29 must tell it from delete_transforms.                        *)
delete_transforms_twice(transform_ids, inUse, failAt) ==
    DeleteEach(DictValues(transform_ids) \o DictValues(transform_ids), 1, failAt,
               [calls |-> <<>>, live |-> inUse, raised |-> ""])

delete_transforms(transform_ids, inUse, failAt) ==
    DeleteEach(DictValues(transform_ids), 1, failAt,
               [calls |-> <<>>, live |-> inUse, raised |-> ""])

NoTensor == [ids |-> <<>>, shape |-> <<>>, on_shape |-> <<>>]

(* The tiles of a packed shape: its elements, Slots to a tile. *)
Slots == 4

RECURSIVE Product(_, _)
Product(shape, i) == IF i > Len(shape) THEN 1 ELSE shape[i] * Product(shape, i + 1)

TileCount(on_shape) == (Product(on_shape, 1) + Slots - 1) \div Slots

CipherTensor(ids, shape, on_shape) ==
    [ids |-> ids, shape |-> shape, on_shape |-> on_shape]

(* A faulty variant of evaluate_transforms: it hands the backend the ids   *)
(* of the mapping in reverse.  C10 must tell it from evaluate_transforms.  *)
evaluate_transforms_reversed(linear_layer, in_ctensor, out, fails) ==
    LET ids == DictValues(linear_layer.transform_ids)
        transform_ids == [i \in 1..Len(ids) |-> ids[Len(ids) + 1 - i]]
        args == <<transform_ids, in_ctensor.ids, linear_layer.name>>
    IN  IF fails
        THEN [calls |-> <<Call("EvaluateLinearTransforms", args, <<>>)>>,
              raised |-> "BackendOperationFailed", tensor |-> NoTensor]
        ELSE [calls |-> <<Call("EvaluateLinearTransforms", args, out)>>,
              raised |-> "",
              tensor |-> CipherTensor(out, linear_layer.output_shape,
                                      linear_layer.fhe_output_shape)]

(* A faulty variant of evaluate_transforms: it wraps the result with the   *)
(* shapes of the input tensor.  C11 must tell it from evaluate_transforms. *)
evaluate_transforms_input_shaped(linear_layer, in_ctensor, out, fails) ==
    LET transform_ids == DictValues(linear_layer.transform_ids)
        args == <<transform_ids, in_ctensor.ids, linear_layer.name>>
    IN  IF fails
        THEN [calls |-> <<Call("EvaluateLinearTransforms", args, <<>>)>>,
              raised |-> "BackendOperationFailed", tensor |-> NoTensor]
        ELSE [calls |-> <<Call("EvaluateLinearTransforms", args, out)>>,
              raised |-> "",
              tensor |-> CipherTensor(out, in_ctensor.shape, in_ctensor.on_shape)]

(* A faulty variant of evaluate_transforms: it keeps as many of the        *)
(* returned ids as the input tensor has.  C12 must tell it from            *)
(* evaluate_transforms.                                                    *)
evaluate_transforms_input_sized(linear_layer, in_ctensor, out, fails) ==
    LET transform_ids == DictValues(linear_layer.transform_ids)
        args == <<transform_ids, in_ctensor.ids, linear_layer.name>>
        kept == IF Len(out) > Len(in_ctensor.ids)
                THEN SubSeq(out, 1, Len(in_ctensor.ids)) ELSE out
    IN  IF fails
        THEN [calls |-> <<Call("EvaluateLinearTransforms", args, <<>>)>>,
              raised |-> "BackendOperationFailed", tensor |-> NoTensor]
        ELSE [calls |-> <<Call("EvaluateLinearTransforms", args, out)>>,
              raised |-> "",
              tensor |-> CipherTensor(kept, linear_layer.output_shape,
                                      linear_layer.fhe_output_shape)]

(* A faulty variant of evaluate_transforms: it infers the packed shape     *)
(* from the number of ids the backend returned.  C13 must tell it from     *)
(* evaluate_transforms.                                                    *)
evaluate_transforms_inferring(linear_layer, in_ctensor, out, fails) ==
    LET transform_ids == DictValues(linear_layer.transform_ids)
        args == <<transform_ids, in_ctensor.ids, linear_layer.name>>
    IN  IF fails
        THEN [calls |-> <<Call("EvaluateLinearTransforms", args, <<>>)>>,
              raised |-> "BackendOperationFailed", tensor |-> NoTensor]
        ELSE [calls |-> <<Call("EvaluateLinearTransforms", args, out)>>,
              raised |-> "",
              tensor |-> CipherTensor(out, linear_layer.output_shape,
                                      <<1, Slots * Len(out)>>)]

(* A faulty variant of evaluate_transforms: it hands the backend the ids   *)
(* of the mapping from the second on, and the first one last.  C24 must    *)
(* tell it from evaluate_transforms.                                       *)
evaluate_transforms_rotated(linear_layer, in_ctensor, out, fails) ==
    LET ids == DictValues(linear_layer.transform_ids)
        transform_ids == IF ids = <<>> THEN ids ELSE Append(Tail(ids), Head(ids))
        args == <<transform_ids, in_ctensor.ids, linear_layer.name>>
    IN  IF fails
        THEN [calls |-> <<Call("EvaluateLinearTransforms", args, <<>>)>>,
              raised |-> "BackendOperationFailed", tensor |-> NoTensor]
        ELSE [calls |-> <<Call("EvaluateLinearTransforms", args, out)>>,
              raised |-> "",
              tensor |-> CipherTensor(out, linear_layer.output_shape,
                                      linear_layer.fhe_output_shape)]

(* out is what the backend returns for the request, unless it fails. *)
evaluate_transforms(linear_layer, in_ctensor, out, fails) ==
    LET transform_ids == DictValues(linear_layer.transform_ids)
        args == <<transform_ids, in_ctensor.ids, linear_layer.name>>
    IN  IF fails
        THEN [calls |-> <<Call("EvaluateLinearTransforms", args, <<>>)>>,
              raised |-> "BackendOperationFailed", tensor |-> NoTensor]
        ELSE [calls |-> <<Call("EvaluateLinearTransforms", args, out)>>,
              raised |-> "",
              tensor |-> CipherTensor(out, linear_layer.output_shape,
                                      linear_layer.fhe_output_shape)]

TwoTiles == CipherTensor(<<101, 102>>, <<2, 4>>, <<1, 8>>)

InputTensors == {TwoTiles, CipherTensor(<<103>>, <<1, 4>>, <<1, 4>>)}

BackendOutputs == {<<201>>, <<201, 202>>}

-----------------------------------------------------------------------------
(* The encryptor (src/orion/backend/python/encryptor.py).  The backend is  *)
(* a test double: the id it returns is ten times the id it was given plus  *)
(* a digit of its choice, odd for Encrypt and even for Decrypt, so that an *)
(* id tells what it was made from.                                         *)

PlainTensor(ids, shape, on_shape) ==
    [ids |-> ids, shape |-> shape, on_shape |-> on_shape]

PlainTensors == {PlainTensor(<<11>>, <<1, 4>>, <<1, 4>>),
                 PlainTensor(<<12, 13>>, <<2, 4>>, <<1, 8>>),
                 PlainTensor(<<>>, <<0>>, <<0>>)}

EncryptDigits == {1, 3}
DecryptDigits == {2, 4}

BackendEncrypt(ptxt, digit) == ptxt * 10 + digit
BackendDecrypt(ctxt, digit) == ctxt * 10 + digit
MadeFrom(id) == id \div 10

(* The loop of encrypt from position i on; call failAt raises. *)
RECURSIVE EncryptEach(_, _, _, _, _)
EncryptEach(ids, i, digits, failAt, acc) ==
    IF i > Len(ids) THEN acc
    ELSE LET ptxt == ids[i]
         IN  IF i = failAt
             THEN [acc EXCEPT !.calls = Append(acc.calls, Call("Encrypt", <<ptxt>>, 0)),
                              !.raised = "BackendOperationFailed"]
             ELSE LET ciphertext_id == BackendEncrypt(ptxt, digits[i])
                  IN  EncryptEach(ids, i + 1, digits, failAt,
                         [acc EXCEPT
                             !.calls = Append(acc.calls,
                                              Call("Encrypt", <<ptxt>>, ciphertext_id)),
                             !.ids = Append(acc.ids, ciphertext_id)])

(* A faulty variant of encrypt: it puts each new id in front of the        *)
(* others.  C14 must tell it from encrypt.                                 *)
encrypt_prepending(plaintensor, digits, failAt) ==
    LET done == EncryptEach(plaintensor.ids, 1, digits, failAt,
                            [calls |-> <<>>, ids |-> <<>>, raised |-> ""])
        ciphertext_ids == [i \in 1..Len(done.ids) |-> done.ids[Len(done.ids) + 1 - i]]
    IN  [calls  |-> done.calls,
         raised |-> done.raised,
         tensor |-> IF done.raised # "" THEN NoTensor
                    ELSE CipherTensor(ciphertext_ids, plaintensor.shape,
                                      plaintensor.on_shape)]

encrypt(plaintensor, digits, failAt) ==
    LET done == EncryptEach(plaintensor.ids, 1, digits, failAt,
                            [calls |-> <<>>, ids |-> <<>>, raised |-> ""])
        ciphertext_ids == done.ids
    IN  [calls  |-> done.calls,
         raised |-> done.raised,
         tensor |-> IF done.raised # "" THEN NoTensor
                    ELSE CipherTensor(ciphertext_ids, plaintensor.shape,
                                      plaintensor.on_shape)]

RECURSIVE DecryptEach(_, _, _, _, _)
DecryptEach(ids, i, digits, failAt, acc) ==
    IF i > Len(ids) THEN acc
    ELSE LET ctxt == ids[i]
         IN  IF i = failAt
             THEN [acc EXCEPT !.calls = Append(acc.calls, Call("Decrypt", <<ctxt>>, 0)),
                              !.raised = "BackendOperationFailed"]
             ELSE LET plaintext_id == BackendDecrypt(ctxt, digits[i])
                  IN  DecryptEach(ids, i + 1, digits, failAt,
                         [acc EXCEPT
                             !.calls = Append(acc.calls,
                                              Call("Decrypt", <<ctxt>>, plaintext_id)),
                             !.ids = Append(acc.ids, plaintext_id)])

(* A faulty variant of decrypt: it passes the two shapes the other way     *)
(* round.  C15 must tell it from decrypt.                                  *)
decrypt_shapes_swapped(ciphertensor, digits, failAt) ==
    LET done == DecryptEach(ciphertensor.ids, 1, digits, failAt,
                            [calls |-> <<>>, ids |-> <<>>, raised |-> ""])
    IN  [calls  |-> done.calls,
         raised |-> done.raised,
         tensor |-> IF done.raised # "" THEN NoTensor
                    ELSE PlainTensor(done.ids, ciphertensor.on_shape,
                                     ciphertensor.shape)]

decrypt(ciphertensor, digits, failAt) ==
    LET done == DecryptEach(ciphertensor.ids, 1, digits, failAt,
                            [calls |-> <<>>, ids |-> <<>>, raised |-> ""])
        plaintext_ids == done.ids
    IN  [calls  |-> done.calls,
         raised |-> done.raised,
         tensor |-> IF done.raised # "" THEN NoTensor
                    ELSE PlainTensor(plaintext_ids, ciphertensor.shape,
                                     ciphertensor.on_shape)]

-----------------------------------------------------------------------------
(* The bootstrapper (src/orion/backend/python/bootstrapper.py).  The       *)
(* backend's bootstrap context is the sequence of the slot counts it holds *)
(* a bootstrapper for; it makes one bootstrapper per slot count.           *)

SlotCounts == {4, 8}
BootLogp == 61          \* scheme.params.get_boot_logp()
Ciphertexts == {101, 103}

BackendNewBootstrapper(context, logp, slots) ==
    IF slots \in Range(context) THEN context ELSE Append(context, slots)

BackendBootstrap(ctxt) == ctxt * 10 + 5

(* A faulty variant of generate_bootstrapper: it passes the two arguments  *)
(* the other way round.  C17 must tell it from generate_bootstrapper.      *)
generate_bootstrapper_swapped(slots, context, fails) ==
    LET logp == BootLogp
    IN  IF fails
        THEN [calls |-> <<Call("NewBootstrapper", <<slots, logp>>, 0)>>,
              raised |-> "BackendOperationFailed", context |-> context, id |-> 0]
        ELSE [calls |-> <<Call("NewBootstrapper", <<slots, logp>>, logp)>>,
              raised |-> "", id |-> logp,
              context |-> BackendNewBootstrapper(context, slots, logp)]

generate_bootstrapper(slots, context, fails) ==
    LET logp == BootLogp
    IN  IF fails
        THEN [calls |-> <<Call("NewBootstrapper", <<logp, slots>>, 0)>>,
              raised |-> "BackendOperationFailed", context |-> context, id |-> 0]
        ELSE [calls |-> <<Call("NewBootstrapper", <<logp, slots>>, slots)>>,
              raised |-> "", id |-> slots,
              context |-> BackendNewBootstrapper(context, logp, slots)]

(* The backend cannot bootstrap for a slot count it holds no bootstrapper  *)
(* for.                                                                    *)
bootstrap(ctxt, slots, context, fails) ==
    IF fails \/ slots \notin Range(context)
    THEN [calls |-> <<Call("Bootstrap", <<ctxt, slots>>, 0)>>,
          raised |-> "BackendOperationFailed", id |-> 0]
    ELSE [calls |-> <<Call("Bootstrap", <<ctxt, slots>>, BackendBootstrap(ctxt))>>,
          raised |-> "", id |-> BackendBootstrap(ctxt)]

-----------------------------------------------------------------------------
(* The benchmark logger (src/examples/benchmark_logger.py).  Times are in  *)
(* units of 0.00001 s; round(duration, 4) rounds to a multiple of ten      *)
(* units, halves to the even one.                                          *)

PhaseNames == {"compile", "fhe_inference"}
Statuses == {"success", "failed"}
Elapsed == {0, 5, 15}
Kwargs == {<<>>, <<Entry("input_level", 3)>>}

Round4(duration) ==
    LET q == duration \div 10
        r == duration % 10
    IN  IF r < 5 THEN q * 10
        ELSE IF r > 5 THEN (q + 1) * 10
        ELSE IF q % 2 = 0 THEN q * 10 ELSE (q + 1) * 10

RECURSIVE DictUpdate(_, _, _)
DictUpdate(d, kwargs, i) ==
    IF i > Len(kwargs) THEN d
    ELSE DictUpdate(DictSet(d, kwargs[i].k, kwargs[i].v), kwargs, i + 1)

start_phase(phase_name, timers, now) == (phase_name :> now) @@ timers

(* A faulty variant of end_phase: a phase that was not started counts as   *)
(* started at time 0.  C20 must tell it from end_phase.                    *)
end_phase_unchecked(phase_name, status, kwargs, timers, phases, now) ==
    LET started == IF phase_name \in DOMAIN timers THEN timers[phase_name] ELSE 0
        duration == now - started
        phase_data == DictUpdate(<<Entry("duration_seconds", Round4(duration)),
                                   Entry("status", status)>>, kwargs, 1)
    IN  [raised |-> "", phases |-> (phase_name :> phase_data) @@ phases]

end_phase(phase_name, status, kwargs, timers, phases, now) ==
    IF phase_name \notin DOMAIN timers
    THEN [raised |-> "ValueError: phase was not started", phases |-> phases]
    ELSE LET duration == now - timers[phase_name]
             phase_data == DictUpdate(<<Entry("duration_seconds", Round4(duration)),
                                        Entry("status", status)>>, kwargs, 1)
         IN  [raised |-> "", phases |-> (phase_name :> phase_data) @@ phases]

(* The phases of the benchmark script, in the order of the script, and the *)
(* phases finalize counts as preprocessing.                                *)
RunPhases == <<"initialization", "data_loading", "cleartext_inference", "fit",
               "compile", "encode", "encrypt", "fhe_inference", "decrypt",
               "decode">>

PreprocessingPhases == <<"data_loading", "cleartext_inference", "fit", "compile",
                         "encode", "encrypt">>

RunElapsed == {0, 15}

(* What the steps of the script can raise: an Exception in the body of a   *)
(* phase or in the computation of the results, or a KeyboardInterrupt in   *)
(* the body of a phase.                                                    *)
Uncaught == {"KeyboardInterrupt"}
BodyRaises == {"", "RuntimeError", "KeyboardInterrupt"}
ResultRaises == {"", "ValueError: math domain error"}

DurationOf(phases, p) ==
    IF p \in DOMAIN phases THEN DictGet(phases[p], "duration_seconds") ELSE 0

RECURSIVE SumDurations(_, _, _)
SumDurations(phases, names, i) ==
    IF i > Len(names) THEN 0
    ELSE DurationOf(phases, names[i]) + SumDurations(phases, names, i + 1)

(* A faulty variant of finalize: it records the status only when the log   *)
(* has no status yet.  C30 must tell it from finalize.                     *)
finalize_first_status(status, error, log, phases, now, writes) ==
    LET total_duration == now
        set == [log EXCEPT
                  !.status = IF log.status = "running" THEN status ELSE log.status,
                  !.error = IF log.status = "running" THEN error ELSE log.error,
                  !.timing = <<Entry("total_duration_seconds", Round4(total_duration)),
                               Entry("fhe_inference_only",
                                     Round4(DurationOf(phases, "fhe_inference"))),
                               Entry("preprocessing_total",
                                     Round4(SumDurations(phases, PreprocessingPhases, 1)))>>,
                  !.finalized = log.finalized + 1]
    IN  IF writes
        THEN [log_data |-> [set EXCEPT !.files = set.files + 1], raised |-> ""]
        ELSE [log_data |-> set, raised |-> "OSError"]

(* finalize, the logger having been constructed at time 0; writes tells    *)
(* whether the log file can be written.                                    *)
finalize(status, error, log, phases, now, writes) ==
    LET total_duration == now
        set == [log EXCEPT
                  !.status = status,
                  !.error = error,
                  !.timing = <<Entry("total_duration_seconds", Round4(total_duration)),
                               Entry("fhe_inference_only",
                                     Round4(DurationOf(phases, "fhe_inference"))),
                               Entry("preprocessing_total",
                                     Round4(SumDurations(phases, PreprocessingPhases, 1)))>>,
                  !.finalized = log.finalized + 1]
    IN  IF writes
        THEN [log_data |-> [set EXCEPT !.files = set.files + 1], raised |-> ""]
        ELSE [log_data |-> set, raised |-> "OSError"]

-----------------------------------------------------------------------------
(* What a call of the evaluator did: the operation, the layer, "ok" or the *)
(* exception that ended it, and what it returned.                          *)

Ret(op, name, outcome) ==
    [ op               |-> op,
      name             |-> name,
      outcome          |-> outcome,
      mismatches       |-> <<>>,     \* the fields the error message lists
      returned         |-> FALSE,    \* whether the call returned a value
      diagonals        |-> <<>>,     \* load: the diagonals returned;
                                     \*   save: the layer's diagonals at the call
      reads            |-> <<>>,     \* load: the block groups read from the file
      on_bias          |-> <<>>,     \* load: the bias returned
      output_rotations |-> IntRot(0),\* load: the rotations returned
      mapping          |-> <<>>,     \* generate: the mapping returned;
                                     \*   delete: the mapping passed
      tensor           |-> NoTensor, \* the tensor returned
      input            |-> NoTensor, \* the tensor passed
      again            |-> FALSE,    \* generate_bootstrapper: the slot count was
                                     \*   asked for before; evaluate: the call
                                     \*   before was a completed evaluate of this
                                     \*   layer and this input
      before           |-> NoTensor, \*   and returned this tensor
      failedAt         |-> 0,        \* which backend call of the operation failed
      origin           |-> NoTensor, \* encrypt, decrypt: when the tensor passed is
                                     \*   what the call before returned, the tensor
                                     \*   that call was passed
      hops             |-> 0,        \*   and how many calls led to this result
      id               |-> 0,        \* generate_bootstrapper, bootstrap: the id returned
      matched          |-> FALSE,    \* delete: first delete of a generated mapping
      liveBefore       |-> {} ]      \* the live transforms when the call began

OutcomeOf(raised) == IF raised = "" THEN "ok" ELSE raised

Init ==
    /\ layers = [n \in LayerNames |->
                    NewLayer(n, IF n = "fc1" THEN TwoByTwo ELSE OneBlock)]
    /\ params_embed = "hybrid"
    /\ embed_method = "hybrid"
    /\ fileExists = FALSE
    /\ store = <<>>
    /\ live = {}
    /\ calls = <<>>
    /\ ret = Ret("none", "", "ok")
    /\ written = <<>>
    /\ justSaved = ""
    /\ refits = 0
    /\ failures = 0
    /\ gen = [n \in LayerNames |-> "none"]
    /\ unowned = {}
    /\ strayDelete = FALSE
    /\ managers = 0
    /\ built = 0
    /\ bootstrappers = <<>>
    /\ requested = {}
    /\ deletes = 0
    /\ torn = FALSE
    /\ clock = 0
    /\ phase_timers = <<>>
    /\ log_phases = <<>>
    /\ log_data = [status |-> "running", error |-> "", timing |-> <<>>,
                   finalized |-> 0, files |-> 0]
    /\ run = [pc |-> "start", i |-> 1, caught |-> "", raised |-> "", failed |-> ""]

-----------------------------------------------------------------------------
(* The network as instantiated: the compile stage sets a layer's           *)
(* attributes and diagonals, init_scheme builds the parameters and the     *)
(* evaluator.                                                              *)

Refit(n, field, value) ==
    /\ refits < MaxRefits
    /\ value # layers[n][field]
    /\ layers' = [layers EXCEPT ![n][field] = value]
    /\ refits' = refits + 1
    /\ justSaved' = IF justSaved = n THEN "" ELSE justSaved
    /\ ret' = Ret("none", "", "ok")
    /\ UNCHANGED <<params_embed, embed_method, fileExists, store, written, failures>>
    /\ UNCHANGED backendVars
    /\ UNCHANGED <<bootVars, loggerVars>>

Recompile(n, diagonals) ==
    /\ refits < MaxRefits
    /\ diagonals # layers[n].diagonals
    /\ layers' = [layers EXCEPT ![n].diagonals = diagonals]
    /\ refits' = refits + 1
    /\ justSaved' = IF justSaved = n THEN "" ELSE justSaved
    /\ ret' = Ret("none", "", "ok")
    /\ UNCHANGED <<params_embed, embed_method, fileExists, store, written, failures>>
    /\ UNCHANGED backendVars
    /\ UNCHANGED <<bootVars, loggerVars>>

Reconfigure(method) ==
    /\ refits < MaxRefits
    /\ method # params_embed
    /\ params_embed' = method
    /\ embed_method' = method
    /\ refits' = refits + 1
    /\ justSaved' = ""
    /\ ret' = Ret("none", "", "ok")
    /\ UNCHANGED <<layers, fileExists, store, written, failures>>
    /\ UNCHANGED backendVars
    /\ UNCHANGED <<bootVars, loggerVars>>

-----------------------------------------------------------------------------
(* The cache operations.                                                   *)

SaveTransforms(n, failAt) ==
    LET done == save_transforms(layers[n], embed_method, fileExists, store, failAt)
    IN  /\ failAt # 0 => failures < MaxFailures
        /\ failures' = IF done.raised = "OSError" THEN failures + 1 ELSE failures
        /\ layers' = [layers EXCEPT ![n].diagonals = done.diagonals]
        /\ fileExists' = done.file
        /\ store' = done.store
        /\ written' = IF done.store # store
                      THEN (n :> layers[n]) @@ written
                      ELSE written
        /\ justSaved' = IF done.raised = "" THEN n ELSE ""
        /\ ret' = [Ret("save", n, OutcomeOf(done.raised)) EXCEPT
                      !.diagonals = layers[n].diagonals]
        /\ UNCHANGED <<params_embed, embed_method, refits>>
        /\ UNCHANGED backendVars
        /\ UNCHANGED <<bootVars, loggerVars>>

LoadTransforms(n) ==
    LET got == load_transforms(layers[n], params_embed, fileExists, store)
    IN  /\ ret' = [Ret("load", n, got.outcome) EXCEPT
                      !.mismatches = got.mismatches,
                      !.returned = got.returned,
                      !.diagonals = got.diagonals,
                      !.reads = got.reads,
                      !.on_bias = IF got.returned THEN layers[n].on_bias ELSE <<>>,
                      !.output_rotations = IF got.returned
                                           THEN layers[n].output_rotations
                                           ELSE IntRot(0)]
        /\ fileExists' = got.file
        /\ UNCHANGED <<layers, params_embed, embed_method, refits, failures>>
        /\ UNCHANGED <<store, written, justSaved>>
        /\ UNCHANGED backendVars
        /\ UNCHANGED <<bootVars, loggerVars>>

VerifyLayerCompatibility(n) ==
    LET check == verify_layer_compatibility(layers[n], params_embed, fileExists, store)
    IN  /\ ret' = [Ret("verify", n, check.outcome) EXCEPT
                      !.mismatches = check.mismatches]
        /\ UNCHANGED <<layers, params_embed, embed_method, refits, failures>>
        /\ UNCHANGED cacheVars
        /\ UNCHANGED backendVars
        /\ UNCHANGED <<bootVars, loggerVars>>

-----------------------------------------------------------------------------
(* The transform operations.  The caller keeps the mapping that            *)
(* generate_transforms returns in layer.transform_ids, and passes          *)
(* layer.transform_ids to delete_transforms.  A second delete_transforms   *)
(* of a mapping hands the backend ids it has released already; what the    *)
(* backend does with them is not the evaluator's to decide, and the model  *)
(* follows the program no further than that call.                          *)

MappingIds(mapping) == {mapping[i].v : i \in 1..Len(mapping)}

GenerateTransforms(n, failAt) ==
    LET blocks == Len(layers[n].diagonals)
        needed == IF failAt = 0 THEN blocks ELSE failAt - 1
    IN  \E fresh \in FreshIds(needed, live) :
          LET done == generate_transforms(layers[n], live, fresh, failAt)
              ok == done.raised = ""
          IN  /\ ~strayDelete
              /\ failAt # 0 => failures < MaxFailures
              /\ failures' = IF ok THEN failures ELSE failures + 1
              /\ live' = done.live
              /\ calls' = done.calls
              /\ layers' = IF ok
                           THEN [layers EXCEPT ![n].transform_ids = done.lintransf_ids]
                           ELSE layers
              /\ gen' = IF ok THEN [gen EXCEPT ![n] = "generated"] ELSE gen
              /\ unowned' = unowned
                     \cup (IF ok /\ gen[n] = "generated"
                           THEN MappingIds(layers[n].transform_ids) ELSE {})
                     \cup (IF ok THEN {} ELSE done.live \ live)
              /\ ret' = [Ret("generate", n, OutcomeOf(done.raised)) EXCEPT
                            !.returned = ok,
                            !.mapping = IF ok THEN done.lintransf_ids ELSE <<>>,
                            !.failedAt = IF ok THEN 0 ELSE failAt,
                            !.liveBefore = live]
              /\ UNCHANGED <<params_embed, embed_method, refits, strayDelete>>
              /\ UNCHANGED cacheVars
              /\ UNCHANGED <<bootVars, loggerVars>>

EvaluateTransforms(n, in_ctensor, out, fails) ==
    LET done == evaluate_transforms(layers[n], in_ctensor, out, fails)
    IN  /\ ~strayDelete
        /\ fails => failures < MaxFailures
        /\ failures' = IF fails THEN failures + 1 ELSE failures
        /\ calls' = done.calls
        /\ ret' = [Ret("evaluate", n, OutcomeOf(done.raised)) EXCEPT
                      !.returned = ~fails,
                      !.tensor = done.tensor,
                      !.input = in_ctensor,
                      !.again = /\ ret.op = "evaluate" /\ ret.outcome = "ok"
                                /\ ret.name = n /\ ret.input = in_ctensor,
                      !.before = IF /\ ret.op = "evaluate" /\ ret.outcome = "ok"
                                    /\ ret.name = n /\ ret.input = in_ctensor
                                 THEN ret.tensor ELSE NoTensor,
                      !.mapping = layers[n].transform_ids,
                      !.failedAt = IF fails THEN 1 ELSE 0,
                      !.liveBefore = live]
        /\ UNCHANGED <<layers, params_embed, embed_method, refits, live, gen,
                       unowned, strayDelete>>
        /\ UNCHANGED cacheVars
        /\ UNCHANGED <<bootVars, loggerVars>>

DeleteTransforms(n, failAt) ==
    LET transform_ids == layers[n].transform_ids
        done == delete_transforms(transform_ids, live, failAt)
    IN  /\ ~strayDelete
        /\ failAt # 0 => failures < MaxFailures
        /\ failures' = IF done.raised = "" THEN failures ELSE failures + 1
        /\ live' = done.live
        /\ calls' = done.calls
        /\ gen' = IF gen[n] = "none" THEN gen ELSE [gen EXCEPT ![n] = "deleted"]
        /\ strayDelete' = (strayDelete \/ gen[n] = "deleted")
        /\ unowned' = unowned
               \cup (IF gen[n] = "generated"
                     THEN MappingIds(transform_ids) \cap done.live ELSE {})
        /\ ret' = [Ret("delete", n, OutcomeOf(done.raised)) EXCEPT
                      !.mapping = transform_ids,
                      !.matched = (gen[n] = "generated"),
                      !.failedAt = IF done.raised = "" THEN 0 ELSE failAt,
                      !.liveBefore = live]
        /\ UNCHANGED <<layers, params_embed, embed_method, refits>>
        /\ UNCHANGED cacheVars
        /\ UNCHANGED <<bootVars, loggerVars>>

-----------------------------------------------------------------------------
(* The encryptor's operations.  The tensor passed is a new one or the one  *)
(* the call before returned.                                               *)

Chained(op) == ret.op = op /\ ret.outcome = "ok" /\ ret.hops < MaxHops

Encrypt(plaintensor, digits, failAt) ==
    LET done == encrypt(plaintensor, digits, failAt)
        follows == Chained("decrypt") /\ plaintensor = ret.tensor
    IN  /\ failAt # 0 => failures < MaxFailures
        /\ failures' = IF done.raised = "" THEN failures ELSE failures + 1
        /\ calls' = done.calls
        /\ ret' = [Ret("encrypt", "", OutcomeOf(done.raised)) EXCEPT
                      !.returned = (done.raised = ""),
                      !.tensor = done.tensor,
                      !.input = plaintensor,
                      !.origin = IF follows THEN ret.input ELSE NoTensor,
                      !.hops = IF follows THEN ret.hops + 1 ELSE 1,
                      !.failedAt = failAt]
        /\ UNCHANGED <<layers, params_embed, embed_method, refits, live, gen,
                       unowned, strayDelete>>
        /\ UNCHANGED cacheVars
        /\ UNCHANGED <<bootVars, loggerVars>>

Decrypt(ciphertensor, digits, failAt) ==
    LET done == decrypt(ciphertensor, digits, failAt)
        follows == Chained("encrypt") /\ ciphertensor = ret.tensor
    IN  /\ failAt # 0 => failures < MaxFailures
        /\ failures' = IF done.raised = "" THEN failures ELSE failures + 1
        /\ calls' = done.calls
        /\ ret' = [Ret("decrypt", "", OutcomeOf(done.raised)) EXCEPT
                      !.returned = (done.raised = ""),
                      !.tensor = done.tensor,
                      !.input = ciphertensor,
                      !.origin = IF follows THEN ret.input ELSE NoTensor,
                      !.hops = IF follows THEN ret.hops + 1 ELSE 1,
                      !.failedAt = failAt]
        /\ UNCHANGED <<layers, params_embed, embed_method, refits, live, gen,
                       unowned, strayDelete>>
        /\ UNCHANGED cacheVars
        /\ UNCHANGED <<bootVars, loggerVars>>

-----------------------------------------------------------------------------
(* The bootstrapper's operations over the lifetime of one scheme.  An      *)
(* object that is destroyed runs __del__; at the teardown of the scheme    *)
(* the objects still alive are destroyed.                                  *)

Construct ==
    /\ ~torn
    /\ built < MaxManagers
    /\ managers' = managers + 1
    /\ built' = built + 1
    /\ calls' = <<>>
    /\ ret' = Ret("construct", "", "ok")
    /\ UNCHANGED <<layers, params_embed, embed_method, refits, failures, live,
                   gen, unowned, strayDelete, bootstrappers, requested,
                   deletes, torn>>
    /\ UNCHANGED <<cacheVars, loggerVars>>

Destroy ==
    /\ ~torn
    /\ managers > 0
    /\ managers' = managers - 1
    /\ calls' = <<Call("DeleteBootstrappers", <<>>, 0)>>
    /\ bootstrappers' = <<>>
    /\ deletes' = deletes + 1
    /\ ret' = Ret("__del__", "", "ok")
    /\ UNCHANGED <<layers, params_embed, embed_method, refits, failures, live,
                   gen, unowned, strayDelete, built, requested, torn>>
    /\ UNCHANGED <<cacheVars, loggerVars>>

Teardown ==
    /\ ~torn
    /\ torn' = TRUE
    /\ managers' = 0
    /\ calls' = [i \in 1..managers |-> Call("DeleteBootstrappers", <<>>, 0)]
    /\ bootstrappers' = IF managers > 0 THEN <<>> ELSE bootstrappers
    /\ deletes' = deletes + managers
    /\ ret' = Ret("teardown", "", "ok")
    /\ UNCHANGED <<layers, params_embed, embed_method, refits, failures, live,
                   gen, unowned, strayDelete, built, requested>>
    /\ UNCHANGED <<cacheVars, loggerVars>>

GenerateBootstrapper(slots, fails) ==
    LET done == generate_bootstrapper(slots, bootstrappers, fails)
    IN  /\ ~torn
        /\ managers > 0
        /\ fails => failures < MaxFailures
        /\ failures' = IF fails THEN failures + 1 ELSE failures
        /\ calls' = done.calls
        /\ bootstrappers' = done.context
        /\ requested' = IF done.raised = "" THEN requested \cup {slots} ELSE requested
        /\ ret' = [Ret("generate_bootstrapper", "", OutcomeOf(done.raised)) EXCEPT
                      !.returned = (done.raised = ""),
                      !.id = done.id,
                      !.again = slots \in requested,
                      !.failedAt = IF done.raised = "" THEN 0 ELSE 1]
        /\ UNCHANGED <<layers, params_embed, embed_method, refits, live, gen,
                       unowned, strayDelete, managers, built, deletes, torn>>
        /\ UNCHANGED <<cacheVars, loggerVars>>

Bootstrap(ctxt, slots, fails) ==
    LET done == bootstrap(ctxt, slots, bootstrappers, fails)
    IN  /\ ~torn
        /\ managers > 0
        /\ fails => failures < MaxFailures
        /\ failures' = IF fails THEN failures + 1 ELSE failures
        /\ calls' = done.calls
        /\ ret' = [Ret("bootstrap", "", OutcomeOf(done.raised)) EXCEPT
                      !.returned = (done.raised = ""),
                      !.id = done.id,
                      !.failedAt = IF done.raised = "" THEN 0 ELSE 1]
        /\ UNCHANGED <<layers, params_embed, embed_method, refits, live, gen,
                       unowned, strayDelete>>
        /\ UNCHANGED <<cacheVars, bootVars, loggerVars>>

-----------------------------------------------------------------------------
(* The logger's operations; elapsed is the time that has passed when the   *)
(* operation reads the clock.                                              *)

StartPhase(phase_name, elapsed) ==
    /\ clock + elapsed <= MaxClock
    /\ clock' = clock + elapsed
    /\ phase_timers' = start_phase(phase_name, phase_timers, clock + elapsed)
    /\ ret' = Ret("start_phase", phase_name, "ok")
    /\ UNCHANGED <<layers, params_embed, embed_method, refits, failures,
                   log_phases, log_data, run>>
    /\ UNCHANGED <<cacheVars, backendVars, bootVars>>

EndPhase(phase_name, status, kwargs, elapsed) ==
    LET done == end_phase(phase_name, status, kwargs, phase_timers, log_phases,
                          clock + elapsed)
    IN  /\ clock + elapsed <= MaxClock
        /\ clock' = clock + elapsed
        /\ log_phases' = done.phases
        /\ ret' = Ret("end_phase", phase_name, OutcomeOf(done.raised))
        /\ UNCHANGED <<layers, params_embed, embed_method, refits, failures,
                       phase_timers, log_data, run>>
        /\ UNCHANGED <<cacheVars, backendVars, bootVars>>

-----------------------------------------------------------------------------
(* The benchmark script (src/examples/run_resnet20_relu_cifar10.py), one   *)
(* action per step of its try block and of its handler.  The body of a     *)
(* phase, the computation of the results and the write of the log file can *)
(* raise; `except Exception` does not catch a KeyboardInterrupt.           *)

RunStartPhase(elapsed) ==
    /\ run.pc = "start"
    /\ clock + elapsed <= MaxClock
    /\ clock' = clock + elapsed
    /\ phase_timers' = start_phase(RunPhases[run.i], phase_timers, clock + elapsed)
    /\ run' = [run EXCEPT !.pc = "body"]
    /\ ret' = Ret("start_phase", RunPhases[run.i], "ok")
    /\ UNCHANGED <<layers, params_embed, embed_method, refits, failures,
                   log_phases, log_data>>
    /\ UNCHANGED <<cacheVars, backendVars, bootVars>>

RunBody(raises) ==
    /\ run.pc = "body"
    /\ run' = IF raises = ""
              THEN [run EXCEPT !.pc = "end"]
              ELSE IF raises \in Uncaught
              THEN [run EXCEPT !.pc = "done", !.raised = raises,
                               !.failed = RunPhases[run.i]]
              ELSE [run EXCEPT !.pc = "handler", !.caught = raises,
                               !.failed = RunPhases[run.i]]
    /\ ret' = Ret("body", RunPhases[run.i], OutcomeOf(raises))
    /\ UNCHANGED <<layers, params_embed, embed_method, refits, failures,
                   clock, phase_timers, log_phases, log_data>>
    /\ UNCHANGED <<cacheVars, backendVars, bootVars>>

RunEndPhase(elapsed) ==
    LET phase_name == RunPhases[run.i]
        kwargs == IF phase_name = "compile" THEN <<Entry("input_level", 3)>> ELSE <<>>
        done == end_phase(phase_name, "success", kwargs, phase_timers, log_phases,
                          clock + elapsed)
    IN  /\ run.pc = "end"
        /\ clock + elapsed <= MaxClock
        /\ clock' = clock + elapsed
        /\ log_phases' = done.phases
        /\ run' = IF done.raised # ""
                  THEN [run EXCEPT !.pc = "handler", !.caught = done.raised]
                  ELSE IF run.i < Len(RunPhases)
                  THEN [run EXCEPT !.pc = "start", !.i = run.i + 1]
                  ELSE [run EXCEPT !.pc = "results"]
        /\ ret' = Ret("end_phase", phase_name, OutcomeOf(done.raised))
        /\ UNCHANGED <<layers, params_embed, embed_method, refits, failures,
                       phase_timers, log_data>>
        /\ UNCHANGED <<cacheVars, backendVars, bootVars>>

(* Lines 88 to 101: the error of the FHE output, its precision and         *)
(* set_results.                                                            *)
RunResults(raises) ==
    /\ run.pc = "results"
    /\ run' = IF raises = ""
              THEN [run EXCEPT !.pc = "finalize"]
              ELSE [run EXCEPT !.pc = "handler", !.caught = raises]
    /\ ret' = Ret("set_results", "", OutcomeOf(raises))
    /\ UNCHANGED <<layers, params_embed, embed_method, refits, failures,
                   clock, phase_timers, log_phases, log_data>>
    /\ UNCHANGED <<cacheVars, backendVars, bootVars>>

(* Line 102, inside the try block. *)
RunFinalize(elapsed, writes) ==
    LET done == finalize("success", "", log_data, log_phases, clock + elapsed, writes)
    IN  /\ run.pc = "finalize"
        /\ clock + elapsed <= MaxClock
        /\ clock' = clock + elapsed
        /\ log_data' = done.log_data
        /\ run' = IF done.raised # ""
                  THEN [run EXCEPT !.pc = "handler", !.caught = done.raised]
                  ELSE [run EXCEPT !.pc = "done"]
        /\ ret' = Ret("finalize", "", OutcomeOf(done.raised))
        /\ UNCHANGED <<layers, params_embed, embed_method, refits, failures,
                       phase_timers, log_phases>>
        /\ UNCHANGED <<cacheVars, backendVars, bootVars>>

(* Lines 104 to 109: the handler finalizes the log as failed and raises    *)
(* the exception again, unless finalize raises first.                      *)
RunHandler(elapsed, writes) ==
    LET done == finalize("failed", run.caught, log_data, log_phases,
                         clock + elapsed, writes)
    IN  /\ run.pc = "handler"
        /\ clock + elapsed <= MaxClock
        /\ clock' = clock + elapsed
        /\ log_data' = done.log_data
        /\ run' = [run EXCEPT !.pc = "done",
                              !.raised = IF done.raised # "" THEN done.raised
                                         ELSE run.caught]
        /\ ret' = Ret("handler", "", OutcomeOf(done.raised))
        /\ UNCHANGED <<layers, params_embed, embed_method, refits, failures,
                       phase_timers, log_phases>>
        /\ UNCHANGED <<cacheVars, backendVars, bootVars>>

-----------------------------------------------------------------------------
(* Specifications: the cache with a network that is re-instantiated, and   *)
(* the transforms of a compiled network.                                   *)

Instantiate ==
    \/ \E n \in LayerNames, field \in RefitFields :
          \E value \in FieldValues(field) : Refit(n, field, value)
    \/ \E n \in LayerNames, diagonals \in DiagonalChoices : Recompile(n, diagonals)
    \/ \E method \in EmbedMethods : Reconfigure(method)

CacheNext ==
    \/ Instantiate
    \/ \E n \in LayerNames : SaveTransforms(n, 0)
    \/ \E n \in LayerNames : LoadTransforms(n)
    \/ \E n \in LayerNames : VerifyLayerCompatibility(n)

(* The cache when a write to the file can fail. *)
FaultyCacheNext ==
    \/ \E n \in LayerNames, diagonals \in DiagonalChoices : Recompile(n, diagonals)
    \/ \E n \in LayerNames :
          \E failAt \in 0..Len(SaveSteps(layers[n], embed_method)) :
             SaveTransforms(n, failAt)
    \/ \E n \in LayerNames : LoadTransforms(n)

(* The cache of a network whose bias, rotations or embedding method are    *)
(* changed between the calls.                                              *)
ReloadFields == {"on_bias", "output_rotations"}

ReloadNext ==
    \/ \E n \in LayerNames, field \in ReloadFields :
          \E value \in FieldValues(field) : Refit(n, field, value)
    \/ \E method \in EmbedMethods : Reconfigure(method)
    \/ \E n \in LayerNames : SaveTransforms(n, 0)
    \/ \E n \in LayerNames : LoadTransforms(n)
    \/ \E n \in LayerNames : VerifyLayerCompatibility(n)

(* One session of a compiled network: its layers are saved and turned     *)
(* into transforms, in any order and more than once.                       *)
SessionNext ==
    \/ \E n \in LayerNames : SaveTransforms(n, 0)
    \/ \E n \in LayerNames : GenerateTransforms(n, 0)

TransformsNext ==
    \/ \E n \in LayerNames :
          \E failAt \in 0..Len(layers[n].diagonals) : GenerateTransforms(n, failAt)
    \/ \E n \in LayerNames, fails \in BOOLEAN :
          EvaluateTransforms(n, TwoTiles, <<201, 202>>, fails)
    \/ \E n \in LayerNames :
          \E failAt \in 0..Len(layers[n].transform_ids) : DeleteTransforms(n, failAt)

(* Evaluation with every input tensor and every answer of the backend,     *)
(* between generate_transforms and delete_transforms calls that complete.  *)
EvaluateNext ==
    \/ \E n \in LayerNames : GenerateTransforms(n, 0)
    \/ \E n \in LayerNames, in_ctensor \in InputTensors,
          out \in BackendOutputs, fails \in BOOLEAN :
             EvaluateTransforms(n, in_ctensor, out, fails)
    \/ \E n \in LayerNames : DeleteTransforms(n, 0)

EncryptorNext ==
    \/ \E plaintensor \in PlainTensors
                 \cup (IF Chained("decrypt") THEN {ret.tensor} ELSE {}) :
          \E digits \in [1..Len(plaintensor.ids) -> EncryptDigits],
             failAt \in 0..Len(plaintensor.ids) :
                Encrypt(plaintensor, digits, failAt)
    \/ \E ciphertensor \in InputTensors
                 \cup (IF Chained("encrypt") THEN {ret.tensor} ELSE {}) :
          \E digits \in [1..Len(ciphertensor.ids) -> DecryptDigits],
             failAt \in 0..Len(ciphertensor.ids) :
                Decrypt(ciphertensor, digits, failAt)

BootstrapperNext ==
    \/ Construct
    \/ Destroy
    \/ Teardown
    \/ \E slots \in SlotCounts, fails \in BOOLEAN : GenerateBootstrapper(slots, fails)
    \/ \E ctxt \in Ciphertexts, slots \in SlotCounts, fails \in BOOLEAN :
          Bootstrap(ctxt, slots, fails)

LoggerNext ==
    \/ \E phase_name \in PhaseNames, elapsed \in Elapsed :
          StartPhase(phase_name, elapsed)
    \/ \E phase_name \in PhaseNames, status \in Statuses, kwargs \in Kwargs,
          elapsed \in Elapsed :
             EndPhase(phase_name, status, kwargs, elapsed)

RunNext ==
    \/ \E elapsed \in RunElapsed : RunStartPhase(elapsed)
    \/ \E raises \in BodyRaises : RunBody(raises)
    \/ \E elapsed \in RunElapsed : RunEndPhase(elapsed)
    \/ \E raises \in ResultRaises : RunResults(raises)
    \/ \E elapsed \in RunElapsed, writes \in BOOLEAN : RunFinalize(elapsed, writes)
    \/ \E elapsed \in RunElapsed, writes \in BOOLEAN : RunHandler(elapsed, writes)

Next == CacheNext \/ FaultyCacheNext \/ TransformsNext \/ EncryptorNext
           \/ EvaluateNext \/ BootstrapperNext \/ LoggerNext \/ RunNext

SpecCache == Init /\ [][CacheNext]_vars

SpecReload == Init /\ [][ReloadNext]_vars

SpecSession == Init /\ [][SessionNext]_vars

SpecFaultyCache == Init /\ [][FaultyCacheNext]_vars

SpecEncryptor == Init /\ [][EncryptorNext]_vars

(* Every operation that calls the backend.  The evaluator, the encryptor   *)
(* and the bootstrapper share nothing but the backend, so a behaviour      *)
(* stays with the one it began with.                                       *)
TransformOps == {"generate", "evaluate", "delete"}
EncryptorOps == {"encrypt", "decrypt"}
BootstrapperOps == {"construct", "__del__", "teardown", "generate_bootstrapper",
                    "bootstrap"}

BackendNext ==
    \/ ret.op \in TransformOps \cup {"none"} /\ TransformsNext
    \/ ret.op \in EncryptorOps \cup {"none"} /\ EncryptorNext
    \/ ret.op \in BootstrapperOps \cup {"none"} /\ BootstrapperNext

SpecBackend == Init /\ [][BackendNext]_vars

SpecLogger == Init /\ [][LoggerNext]_vars

SpecRun == Init /\ [][RunNext]_vars

SpecBootstrapper == Init /\ [][BootstrapperNext]_vars

SpecEvaluate == Init /\ [][EvaluateNext]_vars

SpecTransforms == Init /\ [][TransformsNext]_vars

Spec == Init /\ [][Next]_vars

-----------------------------------------------------------------------------
(* What the claims about the cache speak of.                               *)

(* The group a complete save of the layer leaves in the file. *)
ExpectedBlocks(diagonals) ==
    [block \in {BlockIdx(diagonals[i].k[1], diagonals[i].k[2]) : i \in 1..Len(diagonals)} |->
        LET i == CHOOSE j \in 1..Len(diagonals) :
                     BlockIdx(diagonals[j].k[1], diagonals[j].k[2]) = block
            diags == diagonals[i].v
        IN  [name \in {Str(diags[j].k) : j \in 1..Len(diags)} |->
                diags[CHOOSE j \in 1..Len(diags) : Str(diags[j].k) = name].v]]

ExpectedEntry(layer, embed, diagonals) ==
    [ds     |-> [key \in MetaKeySet |-> MetaValue(layer, embed, key)],
     groups |-> {"diagonals", "plaintexts"},
     blocks |-> ExpectedBlocks(diagonals)]

(* The ten checked fields, the message that names each, and the fields in  *)
(* which a layer differs from a persisted entry.  Bias values differ when  *)
(* they are not close; rotations differ when their amounts differ.         *)
FieldMessage(field) ==
    CASE field = "bias shape"  -> "on_bias: shape mismatch"
      [] field = "bias values" -> "on_bias: values mismatch"
      [] field = "output_rotations" -> "output_rotations mismatch"
      [] field = "input_shape" -> "input_shape mismatch"
      [] field = "output_shape" -> "output_shape mismatch"
      [] field = "embedding_method" -> "embedding_method mismatch"
      [] field = "input_min" -> "input_min mismatch"
      [] field = "input_max" -> "input_max mismatch"
      [] field = "output_min" -> "output_min mismatch"
      [] field = "output_max" -> "output_max mismatch"

DifferingFields(layer, embed, last) ==
    (IF Len(layer.on_bias) # Len(last["on_bias"]) THEN {"bias shape"} ELSE {})
    \cup (IF /\ Len(layer.on_bias) = Len(last["on_bias"])
             /\ \E i \in 1..Len(layer.on_bias) :
                   Abs(layer.on_bias[i] - last["on_bias"][i]) * RtolInverse
                      > AtolUnits * RtolInverse + Abs(last["on_bias"][i])
          THEN {"bias values"} ELSE {})
    \cup (IF layer.output_rotations.val # last["output_rotations"].val
          THEN {"output_rotations"} ELSE {})
    \cup (IF embed # last["embedding_method"] THEN {"embedding_method"} ELSE {})
    \cup {f \in {"input_shape", "output_shape", "input_min", "input_max",
                 "output_min", "output_max"} : layer[f] # last[f]}

(* The last call checked the layer against a complete entry. *)
CheckedAgainstEntry ==
    /\ ret.op \in {"verify", "load"}
    /\ ret.name \in DOMAIN store
    /\ MetaKeySet \subseteq DOMAIN store[ret.name].ds

DiffersNow ==
    DifferingFields(layers[ret.name], params_embed, store[ret.name].ds)

(* C1: a load_transforms that directly follows a completed save_transforms *)
(* of the same layer raises nothing and returns the block coordinates,     *)
(* diagonal indices and payloads the layer had before the save, with the   *)
(* layer's bias and output rotations.                                      *)
C1_RoundTrip ==
    (ret.op = "load" /\ justSaved = ret.name) =>
        /\ ret.outcome = "ok"
        /\ ret.returned
        /\ AsMapping(ret.diagonals) = AsMapping(written[ret.name].diagonals)
        /\ ret.on_bias = written[ret.name].on_bias
        /\ ret.output_rotations = written[ret.name].output_rotations

(* C2: when the layer differs from its persisted entry in exactly one of   *)
(* the ten checked fields, the check fails with the error that lists the   *)
(* mismatches, and the list names that field and no other.                 *)
C2_SingleFieldNamed ==
    (CheckedAgainstEntry /\ Cardinality(DiffersNow) = 1) =>
        /\ ret.outcome = "ValueError: mismatch"
        /\ \E field \in DiffersNow : ret.mismatches = <<FieldMessage(field)>>

(* C3: the check collects every mismatch: whatever the set of fields in    *)
(* which the layer differs from its entry, one error names exactly the     *)
(* fields of that set, and no error is raised when the set is empty.       *)
C3_AllMismatchesCollected ==
    CheckedAgainstEntry =>
        IF DiffersNow = {}
        THEN ret.outcome \in {"ok", "KeyError"} /\ ret.mismatches = <<>>
        ELSE /\ ret.outcome = "ValueError: mismatch"
             /\ Range(ret.mismatches) = {FieldMessage(f) : f \in DiffersNow}
             /\ Len(ret.mismatches) = Cardinality(DiffersNow)

(* C4: whatever the cache holds, a store nothing was ever saved into       *)
(* included, load_transforms of a layer that was never saved fails with    *)
(* the error that names the missing layer and returns no diagonals.        *)
C4_MissingLayerNamed ==
    (ret.op = "load" /\ ret.name \notin DOMAIN store) =>
        /\ ret.outcome = "ValueError: layer not found"
        /\ ~ret.returned

(* C5: every entry of the cache is fully written, also after a save that   *)
(* a failure interrupted, and load_transforms never returns a mapping that *)
(* lacks blocks or diagonals of the layer that was saved.                  *)
C5_AbsentOrComplete ==
    /\ \A n \in DOMAIN store :
          store[n] = ExpectedEntry(written[n], embed_method, written[n].diagonals)
    /\ (ret.op = "load" /\ ret.returned) =>
          AsMapping(ret.diagonals) = AsMapping(written[ret.name].diagonals)

(* C6: save_transforms succeeds whether or not the layer has an entry, and *)
(* afterwards the entry holds exactly the metadata and the diagonal blocks *)
(* of the layer just saved.                                                *)
C6_SaveOverwrites ==
    ret.op = "save" =>
        /\ ret.outcome = "ok"
        /\ store[ret.name] =
              ExpectedEntry(layers[ret.name], embed_method, ret.diagonals)

-----------------------------------------------------------------------------
(* What the claims about the transforms speak of.                          *)

(* The ids the last evaluate_transforms handed to the backend. *)
HandedIds == calls[1].args[1]

(* C7: a generate_transforms that returns has made one                     *)
(* GenerateLinearTransform request per block of layer.diagonals, in the    *)
(* order of that mapping, and returns a mapping whose keys are the block   *)
(* coordinates, each bound to the id the backend returned for that block;  *)
(* the 2x2-block layer gets 4 ids.                                         *)
C7_OneRequestPerBlock ==
    (ret.op = "generate" /\ ret.outcome = "ok") =>
        LET diagonals == layers[ret.name].diagonals
        IN  /\ Len(calls) = Len(diagonals)
            /\ \A i \in 1..Len(calls) :
                  /\ calls[i].op = "GenerateLinearTransform"
                  /\ calls[i].args[5] = diagonals[i].k[1]
                  /\ calls[i].args[6] = diagonals[i].k[2]
                  /\ DictGet(ret.mapping, diagonals[i].k) = calls[i].result
            /\ Len(ret.mapping) = Len(diagonals)
            /\ {ret.mapping[i].k : i \in 1..Len(ret.mapping)}
                  = {diagonals[i].k : i \in 1..Len(diagonals)}
            /\ layers[ret.name].transform_ids = ret.mapping
            /\ DictKeys(diagonals) = DictKeys(TwoByTwo) =>
                  Cardinality(MappingIds(ret.mapping)) = 4

C7_Witness ==
    /\ ret.op = "generate"
    /\ ret.outcome = "ok"
    /\ Len(calls) = 4
    /\ Len(ret.mapping) = 4
    /\ ret.liveBefore # {}

(* C8: when the backend fails on a block, generate_transforms raises,      *)
(* returns no mapping, and no transform the call created stays live.       *)
C8_NoPartialState ==
    (ret.op = "generate" /\ ret.outcome # "ok") =>
        /\ ~ret.returned
        /\ ret.mapping = <<>>
        /\ live = ret.liveBefore

(* C9: a completed delete_transforms of a mapping that generate_transforms *)
(* returned and that was not deleted before issues one                     *)
(* DeleteLinearTransform per id of the mapping, in order, and lowers the   *)
(* count of live transforms by the number of blocks; once every returned   *)
(* mapping has been deleted so, no transform is live, as at the start.     *)
C9_MatchedDeleteReleasesAll ==
    /\ (ret.op = "delete" /\ ret.matched /\ ret.outcome = "ok") =>
          /\ Len(calls) = Len(ret.mapping)
          /\ \A i \in 1..Len(calls) :
                /\ calls[i].op = "DeleteLinearTransform"
                /\ calls[i].args = <<ret.mapping[i].v>>
          /\ Cardinality(live) = Cardinality(ret.liveBefore) - Len(ret.mapping)
    /\ (~strayDelete /\ unowned = {} /\ \A n \in LayerNames : gen[n] # "generated") =>
          live = {}

C9_Witness ==
    /\ ret.op = "delete"
    /\ ret.matched
    /\ ret.outcome = "ok"
    /\ Len(ret.mapping) = 4
    /\ Cardinality(ret.liveBefore) = 5
    /\ Cardinality(live) = 1

(* C10 as stated: evaluate_transforms never hands the backend an id that   *)
(* delete_transforms has released.                                         *)
C10_NeverReleased ==
    ret.op = "evaluate" => Range(HandedIds) \subseteq ret.liveBefore

(* C10, amended: evaluate_transforms hands the backend the ids of the      *)
(* layer's mapping, in the order of the mapping, and as long as            *)
(* delete_transforms has not been called on that mapping since             *)
(* generate_transforms returned it, every id handed over is live.          *)
C10_LiveUntilDeleted ==
    ret.op = "evaluate" =>
        /\ Len(calls) = 1
        /\ calls[1].op = "EvaluateLinearTransforms"
        /\ HandedIds = DictValues(layers[ret.name].transform_ids)
        /\ (gen[ret.name] = "generated" /\ ~strayDelete) =>
              Range(HandedIds) \subseteq ret.liveBefore

C10_Witness ==
    /\ ret.op = "evaluate"
    /\ ret.outcome = "ok"
    /\ gen[ret.name] = "generated"
    /\ Len(HandedIds) = 4
    /\ \E n \in LayerNames : gen[n] = "deleted"

-----------------------------------------------------------------------------
(* What the claims about evaluation speak of.                              *)

Evaluated == ret.op = "evaluate" /\ ret.outcome = "ok"

(* C11: the tensor evaluate_transforms returns has the ids the backend     *)
(* returned, in the same order, the layer's output_shape as shape and the  *)
(* layer's fhe_output_shape as on_shape, whatever the shapes of the input. *)
C11_WrapsBackendResult ==
    Evaluated =>
        /\ ret.returned
        /\ ret.tensor.ids = calls[1].result
        /\ ret.tensor.shape = layers[ret.name].output_shape
        /\ ret.tensor.on_shape = layers[ret.name].fhe_output_shape

C11_Witness ==
    /\ Evaluated
    /\ ret.input.shape # ret.tensor.shape
    /\ Len(ret.input.ids) # Len(ret.tensor.ids)
    /\ ret.tensor.ids = <<201>>

(* C12 as stated: the tensor evaluate_transforms returns has as many ids   *)
(* as its packed shape has tiles, whatever the backend returns.            *)
C12_TileCountAlways ==
    Evaluated => Len(ret.tensor.ids) = TileCount(layers[ret.name].fhe_output_shape)

(* C12, amended: the packed shape of the returned tensor is the layer's    *)
(* fhe_output_shape whatever the input tensor and the backend's answer,    *)
(* and the tensor has as many ids as that shape has tiles exactly when the *)
(* backend returned that many ids: the evaluator passes the answer on      *)
(* without counting it.                                                    *)
C12_TileCountFromBackend ==
    Evaluated =>
        /\ ret.tensor.on_shape = layers[ret.name].fhe_output_shape
        /\ (Len(ret.tensor.ids) = TileCount(ret.tensor.on_shape))
              <=> (Len(calls[1].result) = TileCount(layers[ret.name].fhe_output_shape))

C12_Witness ==
    /\ Evaluated
    /\ Len(ret.tensor.ids) = TileCount(ret.tensor.on_shape)
    /\ Len(ret.input.ids) # Len(ret.tensor.ids)
    /\ TileCount(ret.input.on_shape) # TileCount(ret.tensor.on_shape)

(* C13: evaluate_transforms leaves the layer's transform_ids and the live  *)
(* transforms of the backend as they were and hands over the ids of the    *)
(* input tensor as they are; a second evaluation of the same layer against *)
(* the same input returns a tensor with the shape and the on_shape of the  *)
(* first.                                                                  *)
C13_Repeatable ==
    ret.op = "evaluate" =>
        /\ layers[ret.name].transform_ids = ret.mapping
        /\ live = ret.liveBefore
        /\ calls[1].args[2] = ret.input.ids
        /\ (ret.again /\ ret.outcome = "ok") =>
              /\ ret.tensor.shape = ret.before.shape
              /\ ret.tensor.on_shape = ret.before.on_shape

C13_Witness ==
    /\ Evaluated
    /\ ret.again
    /\ gen[ret.name] = "generated"
    /\ live # {}
    /\ ret.tensor.ids # ret.before.ids

-----------------------------------------------------------------------------
(* What the claims about the encryptor speak of.                           *)

Primitive(op) == IF op = "encrypt" THEN "Encrypt" ELSE "Decrypt"

Converted == ret.op \in {"encrypt", "decrypt"} /\ ret.outcome = "ok"

(* C14: encrypt (decrypt) calls the backend's Encrypt (Decrypt) once per   *)
(* id of the input, in the order of the input; the output has as many ids  *)
(* as the input, the id at position i is the backend's result for the id   *)
(* at position i of the input, and shape and on_shape are the input's.     *)
C14_OneToOne ==
    Converted =>
        /\ Len(calls) = Len(ret.input.ids)
        /\ Len(ret.tensor.ids) = Len(ret.input.ids)
        /\ \A i \in 1..Len(calls) :
              /\ calls[i].op = Primitive(ret.op)
              /\ calls[i].args = <<ret.input.ids[i]>>
              /\ ret.tensor.ids[i] = calls[i].result
        /\ ret.tensor.shape = ret.input.shape
        /\ ret.tensor.on_shape = ret.input.on_shape

C14_Witness ==
    /\ Converted
    /\ ret.op = "encrypt"
    /\ ret.hops = 1
    /\ Len(ret.tensor.ids) = 2
    /\ ret.tensor.ids[1] # ret.tensor.ids[2]
    /\ ret.tensor.shape # ret.tensor.on_shape

(* C15: for a tensor x that is not empty, encrypt(decrypt(x)) and          *)
(* decrypt(encrypt(x)) have the shape, the on_shape and the number of ids  *)
(* of x, and the id at position i comes from the id at position i of x.    *)
C15_RoundTripShape ==
    (Converted /\ ret.hops >= 2 /\ ret.origin.ids # <<>>) =>
        /\ ret.tensor.shape = ret.origin.shape
        /\ ret.tensor.on_shape = ret.origin.on_shape
        /\ Len(ret.tensor.ids) = Len(ret.origin.ids)
        /\ \A i \in 1..Len(ret.tensor.ids) :
              MadeFrom(MadeFrom(ret.tensor.ids[i])) = ret.origin.ids[i]

C15_Witness ==
    /\ Converted
    /\ ret.op = "decrypt"
    /\ ret.hops = 2
    /\ ret.origin \in PlainTensors
    /\ Len(ret.origin.ids) = 2
    /\ ret.tensor.ids # ret.origin.ids

-----------------------------------------------------------------------------
(* What the claims about the bootstrapper speak of.                        *)

(* C16: over the lifetime of the scheme, however many bootstrapper objects *)
(* are constructed and destroyed, DeleteBootstrappers is called once, at   *)
(* the teardown of the scheme and not before, and no bootstrapper is held  *)
(* after it.                                                               *)
C16_DeletedOnceAtTeardown ==
    /\ deletes <= 1
    /\ ~torn => deletes = 0
    /\ (torn /\ built > 0) => deletes = 1
    /\ torn => bootstrappers = <<>>

-----------------------------------------------------------------------------
(* C18: a save_transforms that fails leaves no partly built state: the     *)
(* cache holds nothing for the layer that it did not hold before the call, *)
(* and the diagonal payloads of the layer in memory are as they were.      *)
(* (Only a step of save_transforms makes ret'.op "save".)                  *)
C18_FailedSaveLeavesNothing ==
    [][(ret'.op = "save" /\ ret'.outcome # "ok") =>
          (store' = store /\ layers' = layers)]_vars

-----------------------------------------------------------------------------
(* What the claim about failing backend calls speaks of.                   *)

BackendPrimitive(op) ==
    CASE op = "generate" -> "GenerateLinearTransform"
      [] op = "evaluate" -> "EvaluateLinearTransforms"
      [] op = "delete"   -> "DeleteLinearTransform"
      [] op = "encrypt"  -> "Encrypt"
      [] op = "decrypt"  -> "Decrypt"
      [] op = "generate_bootstrapper" -> "NewBootstrapper"
      [] op = "bootstrap" -> "Bootstrap"

BackendFailed == ret.outcome = "BackendOperationFailed"

(* C19: when a call of a backend primitive fails, the operation raises the *)
(* failure; the failed call is the last one the operation makes (it is not *)
(* made again and nothing follows it), the calls before it are those for   *)
(* the earlier items, and no tensor, id or id mapping is returned.         *)
C19_FailureIsTerminal ==
    BackendFailed =>
        /\ ret.failedAt >= 1
        /\ Len(calls) = ret.failedAt
        /\ \A i \in 1..Len(calls) : calls[i].op = BackendPrimitive(ret.op)
        /\ ret.op \in EncryptorOps =>
              \A i \in 1..Len(calls) : calls[i].args = <<ret.input.ids[i]>>
        /\ ret.op = "delete" =>
              \A i \in 1..Len(calls) : calls[i].args = <<ret.mapping[i].v>>
        /\ ret.op = "generate" =>
              /\ \A i \in 1..Len(calls) :
                    <<calls[i].args[5], calls[i].args[6]>>
                       = layers[ret.name].diagonals[i].k
              /\ ret.mapping = <<>>
        /\ ~ret.returned
        /\ ret.tensor = NoTensor
        /\ ret.id = 0

C19_Witness ==
    /\ BackendFailed
    /\ ret.op = "delete"
    /\ ret.failedAt = 3
    /\ Len(ret.mapping) = 4
    /\ Cardinality(live) = 2

-----------------------------------------------------------------------------
(* C20: end_phase for a phase that start_phase was never called for raises *)
(* the error that says the phase was not started, and leaves the recorded  *)
(* phases and the timers as they were.  (Only a step of end_phase makes    *)
(* ret'.op "end_phase".)                                                   *)
C20_PhaseNotStarted ==
    [][(ret'.op = "end_phase" /\ ret'.name \notin DOMAIN phase_timers) =>
          /\ ret'.outcome = "ValueError: phase was not started"
          /\ phase_timers' = phase_timers
          /\ log_phases' = log_phases]_vars

C20_Witness ==
    /\ ret.op = "end_phase"
    /\ ret.outcome = "ValueError: phase was not started"
    /\ ret.name \notin DOMAIN phase_timers
    /\ DOMAIN phase_timers # {}
    /\ DOMAIN log_phases # {}

-----------------------------------------------------------------------------
(* What the claims about reading the cache speak of.                       *)

(* The check of the layer of the last call against the file as it is. *)
CheckNow ==
    verify_layer_compatibility(layers[ret.name], params_embed, fileExists, store)

(* C21: load_transforms checks the layer before it reads: when the check   *)
(* fails, for a missing layer or for any mismatch, load_transforms raises  *)
(* what the check raised, has read no block group and returns nothing; it  *)
(* returns a mapping only when the check has passed.                       *)
C21_VerifiedBeforeRead ==
    ret.op = "load" =>
        /\ CheckNow.outcome # "ok" =>
              /\ ret.outcome = CheckNow.outcome
              /\ ret.reads = <<>>
              /\ ~ret.returned
              /\ ret.diagonals = NoDiagonals
        /\ ret.returned => CheckNow.outcome = "ok"

C21_Witness ==
    /\ ret.op = "load"
    /\ ret.outcome = "ValueError: mismatch"
    /\ ret.name \in DOMAIN store
    /\ DOMAIN store[ret.name].blocks # {}
    /\ ret.reads = <<>>

(* C22: the mapping load_transforms returns iterates its blocks in         *)
(* ascending numeric (row, col) order, whatever block coordinates were     *)
(* saved, rows and columns of 10 or more included.                         *)
C22_AscendingOrder ==
    (ret.op = "load" /\ ret.returned) =>
        \A i, j \in 1..Len(ret.diagonals) :
            i < j =>
                LET a == ret.diagonals[i].k
                    b == ret.diagonals[j].k
                IN  a[1] < b[1] \/ (a[1] = b[1] /\ a[2] < b[2])

(* C26: a verify_layer_compatibility that follows a completed              *)
(* save_transforms of the same layer, with the layer and the embedding     *)
(* method as they were at the save, raises nothing and reports no          *)
(* mismatch, whether output_rotations is an integer or a sequence.         *)
C26_VerifiesAfterSave ==
    (ret.op = "verify" /\ justSaved = ret.name) =>
        /\ ret.outcome = "ok"
        /\ ret.mismatches = <<>>

(* C27: a save_transforms of one layer leaves the entries of the other     *)
(* layer names as they were, and once both layers have been saved, each    *)
(* layer that is as its entry says loads back with the diagonal blocks it  *)
(* was saved with.  (Only a step of save_transforms makes ret'.op "save".) *)
C27_OtherEntriesKept ==
    [][/\ ret'.op = "save" =>
             \A m \in DOMAIN store \ {ret'.name} :
                 m \in DOMAIN store' /\ store'[m] = store[m]
       /\ (/\ ret.op = "load"
           /\ CheckedAgainstEntry
           /\ DiffersNow = {}
           /\ Cardinality(DOMAIN store) = 2) =>
             /\ ret.returned
             /\ AsMapping(ret.diagonals) = AsMapping(written[ret.name].diagonals)]_vars

(* C28: verify_layer_compatibility and load_transforms, whether they       *)
(* return or raise, leave the file, its entries and every attribute of the *)
(* layer descriptors as they were.  (Only a step of these operations makes *)
(* ret'.op "verify" or "load".)                                            *)
C28_ReadOnly ==
    [][ret'.op \in {"verify", "load"} =>
          /\ fileExists' = fileExists
          /\ store' = store
          /\ layers' = layers]_vars

C28_Witness ==
    /\ ret.op = "load"
    /\ ret.returned
    /\ Len(ret.reads) = 4
    /\ Cardinality(DOMAIN store) = 2

-----------------------------------------------------------------------------
(* What the claims about the arguments of the backend calls speak of.      *)

(* Where the payload of the k-th diagonal begins in the concatenation. *)
RECURSIVE Offset(_, _)
Offset(diags, k) ==
    IF k <= 1 THEN 0 ELSE Offset(diags, k - 1) + Len(diags[k - 1].v)

(* C23: for every block, generate_transforms passes the backend the        *)
(* diagonal indices of the block in insertion order and the concatenation  *)
(* of the payloads in that order, the k-th segment of the data being the   *)
(* payload of the k-th index, with the layer's level, bsgs_ratio and name  *)
(* and the block's row and col as they are.                                *)
C23_ParallelSequences ==
    ret.op = "generate" =>
        \A i \in 1..Len(calls) :
            LET layer == layers[ret.name]
                diags == layer.diagonals[i].v
                diags_idxs == calls[i].args[1]
                diags_data == calls[i].args[2]
            IN  /\ Len(diags_idxs) = Len(diags)
                /\ Len(diags_data) = Offset(diags, Len(diags) + 1)
                /\ \A k \in 1..Len(diags) :
                      /\ diags_idxs[k] = diags[k].k
                      /\ SubSeq(diags_data, Offset(diags, k) + 1,
                                Offset(diags, k + 1)) = diags[k].v
                /\ calls[i].args[3] = layer.level
                /\ calls[i].args[4] = layer.bsgs_ratio
                /\ <<calls[i].args[5], calls[i].args[6]>> = layer.diagonals[i].k
                /\ calls[i].args[7] = layer.name

C23_Witness ==
    /\ ret.op = "generate"
    /\ ret.outcome = "ok"
    /\ Len(calls) = 1
    /\ calls[1].args[1] = <<1, 0>>
    /\ calls[1].args[2] = <<1, 2>>
    /\ ret.liveBefore # {}

(* C24: evaluate_transforms hands the backend the ids of the layer's       *)
(* mapping, each once and in the order of the mapping, and the ids of the  *)
(* input tensor in their order; an evaluate_transforms that follows the    *)
(* generate_transforms of the layer hands over the ids in the order in     *)
(* which the backend returned them.  (Only a step of evaluate_transforms   *)
(* makes ret'.op "evaluate".)                                              *)
C24_CreationOrder ==
    [][ret'.op = "evaluate" =>
          /\ calls'[1].args[1] = DictValues(layers'[ret'.name].transform_ids)
          /\ calls'[1].args[2] = ret'.input.ids
          /\ (ret.op = "generate" /\ ret.outcome = "ok" /\ ret.name = ret'.name) =>
                calls'[1].args[1] = [i \in 1..Len(calls) |-> calls[i].result]]_vars

C24_Witness ==
    /\ Evaluated
    /\ gen[ret.name] = "generated"
    /\ Len(HandedIds) = 4
    /\ HandedIds[1] > HandedIds[2]
    /\ Len(ret.input.ids) = 2

(* C25: a completed save_transforms leaves the layer with the block        *)
(* coordinates and the diagonal indices it had and with every payload      *)
(* empty, and with every other attribute, its transform_ids included, as   *)
(* it was; a generate_transforms of the layer that follows in the same     *)
(* session passes the backend the indices and no diagonal data.            *)
C25_PayloadsDiscarded ==
    /\ (ret.op = "save" /\ ret.outcome = "ok") =>
          LET before == ret.diagonals
              emptied == [i \in 1..Len(before) |->
                            Entry(before[i].k,
                                  [j \in 1..Len(before[i].v) |->
                                      Entry(before[i].v[j].k, <<>>)])]
          IN  layers[ret.name] = [written[ret.name] EXCEPT !.diagonals = emptied]
    /\ (ret.op = "generate" /\ justSaved = ret.name) =>
          \A i \in 1..Len(calls) :
              /\ calls[i].args[1] = [k \in 1..Len(written[ret.name].diagonals[i].v) |->
                                        written[ret.name].diagonals[i].v[k].k]
              /\ calls[i].args[2] = <<>>

C25_Witness ==
    /\ ret.op = "generate"
    /\ ret.outcome = "ok"
    /\ justSaved = ret.name
    /\ calls[1].args[1] = <<1, 0>>
    /\ written[ret.name].diagonals[1].v[1].v # <<>>
    /\ written[ret.name].transform_ids # <<>>

-----------------------------------------------------------------------------
(* What the claim about releasing a transform twice speaks of.             *)

(* The id the i-th DeleteLinearTransform of the last delete_transforms was *)
(* issued for.                                                             *)
Released(i) == calls[i].args[1]

-----------------------------------------------------------------------------
(* What the claim about a benchmark run speaks of.                         *)

(* The phases that were started and not ended, and those that were ended. *)
OpenPhases == DOMAIN phase_timers \ DOMAIN log_phases
EndedPhases == DOMAIN log_phases

====
